---- MODULE Spec2Model ----
(***************************************************************************)
(* A model of splat-transform (merlotqi/splat-transform): the columnar     *)
(* DataTable and combine, the driver's environment split, Morton ordering, *)
(* the LOD packer's BTree walk and its thread-pool dispatch.               *)
(*                                                                         *)
(* The module holds several specifications over one set of variables; each *)
(* specification moves its own group of variables and leaves the others    *)
(* at their initial value.                                                 *)
(***************************************************************************)
EXTENDS Integers, Sequences, FiniteSets, TLC

VARIABLES
  \* ---- DataTable heap (SpecTable)
  tables,      \* slot -> [st: "null" | "live", columns: Seq(Column)]
  nOps,        \* number of operations applied so far
  lastOp,      \* the last operation: kind, arguments, outcome
  \* ---- the driver's environment split (SpecEnv)
  driver,            \* which main(): "app" (src/app) or "transform" (src/transform)
  inputDataTables,   \* the processed input tables: [hasLod, lod, null]
  envDataTables,     \* indices into inputDataTables, 0 for a null pointer
  nonEnvDataTables,  \* likewise
  splitIdx,          \* the table the split loop is at
  runStatus,         \* "split" | "combine" | "written" | "exit1" | "crash"
  \* ---- Morton ordering of an index buffer (SpecMorton)
  mortonIn,          \* the index buffer handed to the function
  mortonBuf,         \* the index buffer now
  mortonFn,          \* "none" before the call, then the function that ran
  \* ---- writeLod: the walk of the BTree (SpecLod)
  lodVariant,        \* "io" (src/src/io/lod_writer.cpp) or "writers" (src/src/writers)
  lodTable,          \* the rows of dataTable: [p: <<x, y, z>>, lod]
  lodChunkCount,     \* writeLod's lodChunkCount
  lodChunkExtent,    \* writeLod's lodChunkExtent
  walkStack,         \* the nodes build() still has to visit, next first
  lodFiles,          \* lod value -> file units, each a sequence of index lists
  filenames,         \* the manifest's file names: <<lod value, file index>>
  lodLevels,         \* the manifest's lodLevels
  lastVisit,         \* the node build() visited last and what it did with it
  \* ---- writeLod: the dispatch of file units to the thread pool (SpecPool)
  workerCount,       \* pool.getWorkerCount()
  fileUnits,         \* the file units in dispatch order: TRUE for a unit with rows
  unitIdx,           \* the unit the dispatch loop is at
  driverPc,          \* "idle" | "poll" | "sleep" | "enqueue" | "join" | "returned" | "aborted"
  queue,             \* the pool's queue: the tasks waiting for a worker
  running,           \* worker -> the task it runs, 0 for none
  taskPc,            \* task -> "none" | "queued" | "sort" | "permute" | "write" | "done" | "failed"
  taskTable,         \* task -> the table permuteRows returned to it
  footprint,         \* task -> the objects it has read ("r") or written ("w")
  allocated,         \* number of tables allocated so far
  poolError,         \* TRUE once the pool holds a task's failure
  \* ---- one call of a function on drawn arguments (the Spec of each function)
  callFn,            \* "none", or the function that was called
  callArgs,          \* its arguments
  callResult,        \* what it returned or raised, NoResult before the call
  \* ---- buildSparseOctree (SpecOctree)
  octAcc,            \* the accumulator: [mixedMorton, mixedMasks, solidMorton]
  octDepth,          \* treeDepth, from the grid bounds
  octPc,             \* "idle" | "sort" | "levels" | "flatten" | "done"
  octLevel,          \* the loop variable level
  octCur,            \* curMortons, curTypes, curMaskIndices, curChildMasks as records
  octLevels,         \* levels, leaves first
  octResult,         \* the flattened octree, NoResult before
  \* ---- cluster1d and kmeans (SpecCluster)
  kmTable,           \* cluster1d's dataTable: a sequence of float columns
  kmK,               \* k
  kmIterations,      \* iterations
  kmPc,              \* "idle" | "start" | "loop" | "returned" | "crashed" | "done"
  kmSteps,           \* steps
  kmCentroids,       \* column 0 of the centroid table
  kmLabels           \* labels

tableVars == <<tables, nOps, lastOp>>
envVars == <<driver, inputDataTables, envDataTables, nonEnvDataTables, splitIdx, runStatus>>
mortonVars == <<mortonIn, mortonBuf, mortonFn>>
lodVars == <<lodVariant, lodTable, lodChunkCount, lodChunkExtent, walkStack, lodFiles,
             filenames, lodLevels, lastVisit>>
poolVars == <<workerCount, fileUnits, unitIdx, driverPc, queue, running, taskPc, taskTable,
              footprint, allocated, poolError>>
callVars == <<callFn, callArgs, callResult>>
octVars == <<octAcc, octDepth, octPc, octLevel, octCur, octLevels, octResult>>
kmVars == <<kmTable, kmK, kmIterations, kmPc, kmSteps, kmCentroids, kmLabels>>

vars == <<tables, nOps, lastOp,
          driver, inputDataTables, envDataTables, nonEnvDataTables, splitIdx, runStatus,
          mortonIn, mortonBuf, mortonFn,
          lodVariant, lodTable, lodChunkCount, lodChunkExtent, walkStack, lodFiles,
          filenames, lodLevels, lastVisit,
          workerCount, fileUnits, unitIdx, driverPc, queue, running, taskPc, taskTable,
          footprint, allocated, poolError,
          callFn, callArgs, callResult,
          octAcc, octDepth, octPc, octLevel, octCur, octLevels, octResult,
          kmTable, kmK, kmIterations, kmPc, kmSteps, kmCentroids, kmLabels>>

----------------------------------------------------------------------------
(***************************************************************************)
(* Generic helpers                                                         *)
(***************************************************************************)
Range(s) == {s[i] : i \in 1..Len(s)}

SeqsUpTo(S, n) == UNION {[1..k -> S] : k \in 0..n}

RECURSIVE SumSeq(_)
SumSeq(s) == IF s = <<>> THEN 0 ELSE Head(s) + SumSeq(Tail(s))

Zeros(n) == [i \in 1..n |-> 0]

----------------------------------------------------------------------------
(***************************************************************************)
(* DataTable: src/src/models/data-table.cpp, src/src/op/combine.cpp        *)
(***************************************************************************)
\* Model bounds of the table specification.
MaxTables == 3
MaxOps == 3
MaxRows == 2

Slots == 1..MaxTables

\* A column is a name, an element type and its data (Column in data-table.h).
ColumnKeys == {<<"a", "f32">>, <<"b", "f32">>, <<"a", "u8">>}
ColumnDatas == {[i \in 1..n |-> i] : n \in 1..MaxRows}
Columns == {[name |-> k[1], type |-> k[2], data |-> d] : k \in ColumnKeys, d \in ColumnDatas}
\* the column lists a table is constructed from: none, one or two columns
ColumnLists == {<<>>} \cup {<<c>> : c \in Columns} \cup {<<c, d>> : c, d \in Columns}

NullTable == [st |-> "null", columns |-> <<>>]
LiveTable(cols) == [st |-> "live", columns |-> cols]

\* Column::length
length(col) == Len(col.data)

\* DataTable::getNumRows
getNumRows(cols) == IF cols = <<>> THEN 0 ELSE length(cols[1])

\* DataTable::getColumnIndex: the first column of that name, 0 for the code's -1
getColumnIndex(cols, name) ==
  IF \E i \in 1..Len(cols) : cols[i].name = name
  THEN CHOOSE i \in 1..Len(cols) :
         cols[i].name = name /\ \A j \in 1..(i - 1) : cols[j].name # name
  ELSE 0

\* DataTable::hasColumn
hasColumn(cols, name) == getColumnIndex(cols, name) # 0

\* DataTable::DataTable(columns): what the constructor throws, "ok" if nothing
ConstructorChecks(cols) ==
  IF cols = <<>> THEN "runtime_error"
  ELSE IF \E i \in 2..Len(cols) : length(cols[i]) # length(cols[1]) THEN "runtime_error"
  ELSE "ok"

\* DataTable::addColumn: the length check is skipped for a table without columns
addColumnThrows(cols, col) == Len(cols) > 0 /\ length(col) # getNumRows(cols)

\* DataTable::removeColumn: std::remove_if on the name, then erase
removeColumnResult(cols, name) == SelectSeq(cols, LAMBDA c : c.name # name)

\* DataTable::clone: every column when no names are given, else each named
\* column (the first of that name); a missing name throws.
cloneThrows(cols, names) == \E i \in 1..Len(names) : ~hasColumn(cols, names[i])

cloneColumns(cols, names) ==
  IF names = <<>> THEN cols
  ELSE [i \in 1..Len(names) |-> cols[getColumnIndex(cols, names[i])]]

\* DataTable::permuteRows: indices are 0-based row numbers
permuteRowsThrows(cols, indices) ==
  cols # <<>> /\ \E j \in 1..Len(indices) : indices[j] >= getNumRows(cols)

\* old_vec[src_index] is checked against the length of the first column only:
\* in a column that is shorter the read is out of bounds and yields any value g.
permuteRowsReadsPastEnd(cols, indices) ==
  \E c \in 1..Len(cols), j \in 1..Len(indices) : indices[j] >= length(cols[c])

\* a copy that keeps the source order: row j of the result is source row j
permuteRowsColumns_Unpermuted(cols, indices, g) ==
  [c \in 1..Len(cols) |->
     [cols[c] EXCEPT !.data =
        [j \in 1..Len(indices) |->
           IF j <= length(cols[c]) THEN cols[c].data[j] ELSE g]]]

permuteRowsColumns(cols, indices, g) ==
  [c \in 1..Len(cols) |->
     [cols[c] EXCEPT !.data =
        [j \in 1..Len(indices) |->
           IF indices[j] < length(cols[c]) THEN cols[c].data[indices[j] + 1] ELSE g]]]

\* combine's findMatchingColumn: the first column of that name and type, 0 for -1
findMatchingColumn(cols, column) ==
  IF \E i \in 1..Len(cols) : cols[i].name = column.name /\ cols[i].type = column.type
  THEN CHOOSE i \in 1..Len(cols) :
         /\ cols[i].name = column.name /\ cols[i].type = column.type
         /\ \A j \in 1..(i - 1) : ~(cols[j].name = column.name /\ cols[j].type = column.type)
  ELSE 0

\* combine, lines 54-61: `columns` is a reference to dataTables[0]->columns, so
\* the columns the other tables add are pushed onto the first input table.
RECURSIVE pushMissing(_, _, _)
pushMissing(columns, cols, j) ==
  IF j > Len(cols) THEN columns
  ELSE pushMissing(IF findMatchingColumn(columns, cols[j]) = 0
                   THEN Append(columns, cols[j]) ELSE columns, cols, j + 1)

RECURSIVE uniqueColumns(_, _, _)
uniqueColumns(columns, tabs, i) ==
  IF i > Len(tabs) THEN columns
  ELSE uniqueColumns(pushMissing(columns, tabs[i], 1), tabs, i + 1)

\* std::memcpy of src to dst at element offset off (elements past the end of
\* dst are not stored here; memcpyOverflows tells that there were some)
memcpy(dst, off, src) ==
  [i \in 1..Len(dst) |-> IF off < i /\ i <= off + Len(src) THEN src[i - off] ELSE dst[i]]

memcpyOverflows(dst, off, src) == off + Len(src) > Len(dst)

\* combine, lines 87-93: the columns of one table copied at rowOffset
RECURSIVE copyColumns(_, _, _, _)
copyColumns(resultColumns, cols, j, rowOffset) ==
  IF j > Len(cols) THEN resultColumns
  ELSE LET idx == findMatchingColumn(resultColumns, cols[j])
       IN copyColumns([resultColumns EXCEPT
                         ![idx].data = memcpy(resultColumns[idx].data, rowOffset, cols[j].data)],
                      cols, j + 1, rowOffset)

\* combine, lines 83-95: every table in turn, rowOffset advancing by its rows
RECURSIVE copyData(_, _, _, _)
copyData(resultColumns, tabs, i, rowOffset) ==
  IF i > Len(tabs) THEN resultColumns
  ELSE copyData(copyColumns(resultColumns, tabs[i], 1, rowOffset), tabs, i + 1,
                rowOffset + getNumRows(tabs[i]))

RECURSIVE copyOverflows(_, _, _, _)
copyOverflows(total, tabs, i, rowOffset) ==
  IF i > Len(tabs) THEN FALSE
  ELSE \/ \E j \in 1..Len(tabs[i]) : rowOffset + length(tabs[i][j]) > total
       \/ copyOverflows(total, tabs, i + 1, rowOffset + getNumRows(tabs[i]))

\* combine for two or more tables. tabs: the inputs' column lists on entry.
\* first: the first input's columns on return; result: the returned columns.
combine(tabs) ==
  LET columns == uniqueColumns(tabs[1], tabs, 2)
      after == [tabs EXCEPT ![1] = columns]
      totalRows == SumSeq([i \in 1..Len(after) |-> getNumRows(after[i])])
      resultColumns == [c \in 1..Len(columns) |->
                          [name |-> columns[c].name, type |-> columns[c].type,
                           data |-> Zeros(totalRows)]]
  IN [first |-> columns,
      overflow |-> copyOverflows(totalRows, after, 1, 0),
      result |-> copyData(resultColumns, after, 1, 0)]

----------------------------------------------------------------------------
(***************************************************************************)
(* The value every group of variables has while another specification runs *)
(***************************************************************************)
EnvIdle ==
  /\ driver = "app"
  /\ inputDataTables = <<>>
  /\ envDataTables = <<>>
  /\ nonEnvDataTables = <<>>
  /\ splitIdx = 0
  /\ runStatus = "idle"

MortonIdle ==
  /\ mortonIn = <<>>
  /\ mortonBuf = <<>>
  /\ mortonFn = "none"

NullNode == [null |-> TRUE]
NoVisit == [kind |-> "none", node |-> NullNode]

LodIdle ==
  /\ lodVariant = "io"
  /\ lodTable = <<>>
  /\ lodChunkCount = 0
  /\ lodChunkExtent = 0
  /\ walkStack = <<>>
  /\ lodFiles = <<>>
  /\ filenames = <<>>
  /\ lodLevels = 0
  /\ lastVisit = NoVisit

PoolIdle ==
  /\ workerCount = 0
  /\ fileUnits = <<>>
  /\ unitIdx = 0
  /\ driverPc = "idle"
  /\ queue = <<>>
  /\ running = <<>>
  /\ taskPc = <<>>
  /\ taskTable = <<>>
  /\ footprint = <<>>
  /\ allocated = 0
  /\ poolError = FALSE

NoResult == [st |-> "none"]

CallIdle ==
  /\ callFn = "none"
  /\ callArgs = <<>>
  /\ callResult = NoResult

OctIdle ==
  /\ octAcc = <<>>
  /\ octDepth = 0
  /\ octPc = "idle"
  /\ octLevel = 0
  /\ octCur = <<>>
  /\ octLevels = <<>>
  /\ octResult = NoResult

KmIdle ==
  /\ kmTable = <<>>
  /\ kmK = 0
  /\ kmIterations = 0
  /\ kmPc = "idle"
  /\ kmSteps = 0
  /\ kmCentroids = <<>>
  /\ kmLabels = <<>>

----------------------------------------------------------------------------
(***************************************************************************)
(* Table operations as actions                                             *)
(***************************************************************************)
NoOp == [op |-> "none", args |-> <<>>, res |-> 0, err |-> "ok"]

Live(s) == tables[s].st = "live"

HasFreeSlot == \E s \in Slots : ~Live(s)
FreeSlot == CHOOSE s \in Slots : ~Live(s) /\ \A t \in 1..(s - 1) : Live(t)

ColumnNames == {k[1] : k \in ColumnKeys}
NameLists == {<<>>} \cup {<<a>> : a \in ColumnNames} \cup {<<a, b>> : a, b \in ColumnNames}
IndexLists == SeqsUpTo(0..MaxRows, MaxRows)
\* what a read past the end of a column may yield
GarbageValues == {0, 1}

\* sequences of distinct live slots, the vector of unique_ptr combine receives
TableLists ==
  {l \in SeqsUpTo(Slots, MaxTables) :
     /\ Len(l) >= 1
     /\ \A i \in 1..Len(l) : Live(l[i])
     /\ \A i, j \in 1..Len(l) : i # j => l[i] # l[j]}

\* The result of a table-returning operation: a new table, or the exception.
Returned(op, args, err, cols) ==
  IF err = "ok"
  THEN /\ tables' = [tables EXCEPT ![FreeSlot] = LiveTable(cols)]
       /\ lastOp' = [op |-> op, args |-> args, res |-> FreeSlot, err |-> "ok"]
  ELSE /\ tables' = tables
       /\ lastOp' = [op |-> op, args |-> args, res |-> 0, err |-> err]

Construct ==
  /\ nOps < MaxOps /\ HasFreeSlot
  /\ \E cols \in ColumnLists :
       Returned("construct", <<>>, ConstructorChecks(cols), cols)
  /\ nOps' = nOps + 1

AddColumn ==
  /\ nOps < MaxOps
  /\ \E s \in Slots, col \in Columns :
       /\ Live(s)
       /\ IF addColumnThrows(tables[s].columns, col)
          THEN /\ tables' = tables
               /\ lastOp' = [op |-> "addColumn", args |-> <<s>>, res |-> 0, err |-> "runtime_error"]
          ELSE /\ tables' = [tables EXCEPT ![s].columns = Append(@, col)]
               /\ lastOp' = [op |-> "addColumn", args |-> <<s>>, res |-> s, err |-> "ok"]
  /\ nOps' = nOps + 1

RemoveColumn ==
  /\ nOps < MaxOps
  /\ \E s \in Slots, name \in ColumnNames :
       /\ Live(s)
       /\ tables' = [tables EXCEPT ![s].columns = removeColumnResult(@, name)]
       /\ lastOp' = [op |-> "removeColumn", args |-> <<s>>, res |-> s, err |-> "ok"]
  /\ nOps' = nOps + 1

Clone ==
  /\ nOps < MaxOps /\ HasFreeSlot
  /\ \E s \in Slots, names \in NameLists :
       /\ Live(s)
       /\ IF cloneThrows(tables[s].columns, names)
          THEN Returned("clone", <<s>>, "runtime_error", <<>>)
          ELSE LET cols == cloneColumns(tables[s].columns, names)
               IN Returned("clone", <<s>>, ConstructorChecks(cols), cols)
  /\ nOps' = nOps + 1

PermuteRows ==
  /\ nOps < MaxOps /\ HasFreeSlot
  /\ \E s \in Slots, indices \in IndexLists :
       /\ Live(s)
       /\ IF permuteRowsThrows(tables[s].columns, indices)
          THEN Returned("permuteRows", <<s, indices>>, "out_of_range", <<>>)
          ELSE \E g \in GarbageValues :
                 /\ g = 0 \/ permuteRowsReadsPastEnd(tables[s].columns, indices)
                 /\ LET cols == permuteRowsColumns(tables[s].columns, indices, g)
                    IN Returned("permuteRows", <<s, indices>>, ConstructorChecks(cols), cols)
  /\ nOps' = nOps + 1

\* combine of one table hands that table over (the input pointer is left null)
CombineOne ==
  /\ nOps < MaxOps
  /\ \E dts \in TableLists :
       /\ Len(dts) = 1
       /\ tables' = tables
       /\ lastOp' = [op |-> "combine", args |-> dts, res |-> dts[1], err |-> "ok"]
  /\ nOps' = nOps + 1

\* combine of several tables. A copy that runs past the end of the result is
\* undefined behaviour: the run crashes, or goes on with the in-range part.
CombineMany ==
  /\ nOps < MaxOps /\ HasFreeSlot
  /\ \E dts \in TableLists :
       /\ Len(dts) >= 2
       /\ LET c == combine([i \in 1..Len(dts) |-> tables[dts[i]].columns])
              mutated == [tables EXCEPT ![dts[1]].columns = c.first]
          IN \/ /\ tables' = [mutated EXCEPT ![FreeSlot] = LiveTable(c.result)]
                /\ lastOp' = [op |-> "combine", args |-> dts, res |-> FreeSlot, err |-> "ok"]
             \/ /\ c.overflow
                /\ tables' = mutated
                /\ lastOp' = [op |-> "combine", args |-> dts, res |-> 0, err |-> "crash"]
  /\ nOps' = nOps + 1

TableIdle ==
  /\ tables = [s \in Slots |-> NullTable]
  /\ nOps = 0
  /\ lastOp = NoOp

TableInit == TableIdle /\ EnvIdle /\ MortonIdle /\ LodIdle /\ PoolIdle /\ CallIdle /\ OctIdle /\ KmIdle

TableNext ==
  \/ Construct /\ UNCHANGED <<envVars, mortonVars, lodVars, poolVars, callVars, octVars, kmVars>>
  \/ AddColumn /\ UNCHANGED <<envVars, mortonVars, lodVars, poolVars, callVars, octVars, kmVars>>
  \/ RemoveColumn /\ UNCHANGED <<envVars, mortonVars, lodVars, poolVars, callVars, octVars, kmVars>>
  \/ Clone /\ UNCHANGED <<envVars, mortonVars, lodVars, poolVars, callVars, octVars, kmVars>>
  \/ PermuteRows /\ UNCHANGED <<envVars, mortonVars, lodVars, poolVars, callVars, octVars, kmVars>>
  \/ CombineOne /\ UNCHANGED <<envVars, mortonVars, lodVars, poolVars, callVars, octVars, kmVars>>
  \/ CombineMany /\ UNCHANGED <<envVars, mortonVars, lodVars, poolVars, callVars, octVars, kmVars>>

SpecTable == TableInit /\ [][TableNext]_vars

----------------------------------------------------------------------------
(***************************************************************************)
(* Claims about tables                                                     *)
(***************************************************************************)
EqualLengths(cols) == \A i, j \in 1..Len(cols) : length(cols[i]) = length(cols[j])

\* C1: after any sequence of table operations, every table (the returned ones
\* and the ones an operation was applied to) has all its columns of one length.
C1_TableWidthInvariant == \A s \in Slots : Live(s) => EqualLengths(tables[s].columns)

ColumnKey(col) == <<col.name, col.type>>
KeysOf(cols) == {ColumnKey(cols[i]) : i \in 1..Len(cols)}

\* the data table Tk contributes to result column c: its own values of the
\* column when it has it, zeros when it has not
Contribution(cols, c) ==
  IF ColumnKey(c) \in KeysOf(cols)
  THEN cols[findMatchingColumn(cols, c)].data
  ELSE Zeros(getNumRows(cols))

RowOffset(ins, k) == SumSeq([i \in 1..(k - 1) |-> getNumRows(ins[i])])

CombinePost(ins, res) ==
  /\ KeysOf(res) = UNION {KeysOf(ins[k]) : k \in 1..Len(ins)}
  /\ \A c \in 1..Len(res) :
       /\ length(res[c]) = RowOffset(ins, Len(ins) + 1)
       /\ \A k \in 1..Len(ins) :
            \A r \in 1..getNumRows(ins[k]) :
              res[c].data[RowOffset(ins, k) + r] = Contribution(ins[k], res[c])[r]

CombinedStep ==
  /\ nOps' = nOps + 1
  /\ lastOp'.op = "combine" /\ lastOp'.err = "ok" /\ Len(lastOp'.args) >= 2

\* C7: combine of two or more tables returns the union of the columns keyed by
\* (name, type) and the rows concatenated in input order; the rows of an input
\* hold its values of a column it has and zero for a column it has not.
C7_CombineUnionZeroFill ==
  [][CombinedStep =>
       CombinePost([i \in 1..Len(lastOp'.args) |-> tables[lastOp'.args[i]].columns],
                   tables'[lastOp'.res].columns)]_vars

----------------------------------------------------------------------------
(***************************************************************************)
(* The driver's environment split: src/app/main.cpp 393-420,               *)
(* src/transform/main.cpp 243-271                                          *)
(***************************************************************************)
MaxInputs == 2
MaxLodRows == 2

\* the values of a `lod` column: -1 marks an environment splat
LodValues == {-1, 0, 1}

\* A processed input table, as far as the split reads it: whether it has a
\* `lod` column, that column (else one 0 per row), and whether the owning
\* pointer has been released.
InputTables ==
  {[hasLod |-> h, lod |-> l, null |-> FALSE] :
     h \in BOOLEAN, l \in SeqsUpTo(LodValues, MaxLodRows)} \ 
  {t \in [hasLod : {FALSE}, lod : SeqsUpTo(LodValues, MaxLodRows), null : {FALSE}] :
     \E i \in 1..Len(t.lod) : t.lod[i] # 0}

\* Column::every / Column::some with the target -1 (exact on integral values)
every(data, value) == \A i \in 1..Len(data) : data[i] = value
some(data, value) == \E i \in 1..Len(data) : data[i] = value

\* main, first `if` of the split loop
isEnv(dt) == dt.hasLod /\ every(dt.lod, -1)

\* main, second `if` of the split loop
isNonEnv(dt) == ~dt.hasLod \/ (dt.hasLod /\ some(dt.lod, -1))

EnvStart ==
  /\ driver \in {"app", "transform"}
  /\ inputDataTables \in UNION {[1..n -> InputTables] : n \in 1..MaxInputs}
  /\ envDataTables = <<>>
  /\ nonEnvDataTables = <<>>
  /\ splitIdx = 1
  /\ runStatus = "split"

\* src/app/main.cpp 397-401: the table is copied into each list it belongs to
SplitApp ==
  /\ runStatus = "split" /\ driver = "app" /\ splitIdx <= Len(inputDataTables)
  /\ LET dt == inputDataTables[splitIdx]
     IN /\ envDataTables' = IF isEnv(dt) THEN Append(envDataTables, splitIdx)
                            ELSE envDataTables
        /\ nonEnvDataTables' = IF isNonEnv(dt) THEN Append(nonEnvDataTables, splitIdx)
                               ELSE nonEnvDataTables
  /\ splitIdx' = splitIdx + 1
  /\ UNCHANGED <<driver, inputDataTables, runStatus>>

\* src/transform/main.cpp 247-252 when the first `if` is false: dt is still
\* owned when the second `if` reads it
SplitTransformKept ==
  /\ runStatus = "split" /\ driver = "transform" /\ splitIdx <= Len(inputDataTables)
  /\ LET dt == inputDataTables[splitIdx]
     IN /\ ~isEnv(dt)
        /\ IF isNonEnv(dt)
           THEN /\ nonEnvDataTables' = Append(nonEnvDataTables, splitIdx)
                /\ inputDataTables' = [inputDataTables EXCEPT ![splitIdx].null = TRUE]
           ELSE UNCHANGED <<nonEnvDataTables, inputDataTables>>
  /\ splitIdx' = splitIdx + 1
  /\ UNCHANGED <<driver, envDataTables, runStatus>>

\* src/transform/main.cpp 247-252 when the first `if` is true: dt.release()
\* leaves dt null and the second `if` calls dt->hasColumn on it. That is
\* undefined behaviour: the run crashes, or the condition comes out false, or
\* it comes out true and the null pointer is released into nonEnvDataTables.
SplitTransformReleased ==
  /\ runStatus = "split" /\ driver = "transform" /\ splitIdx <= Len(inputDataTables)
  /\ isEnv(inputDataTables[splitIdx])
  /\ envDataTables' = Append(envDataTables, splitIdx)
  /\ inputDataTables' = [inputDataTables EXCEPT ![splitIdx].null = TRUE]
  /\ \E outcome \in {"crash", "false", "true"} :
       /\ runStatus' = IF outcome = "crash" THEN "crash" ELSE runStatus
       /\ nonEnvDataTables' = IF outcome = "true" THEN Append(nonEnvDataTables, 0)
                              ELSE nonEnvDataTables
  /\ splitIdx' = splitIdx + 1
  /\ UNCHANGED driver

SplitDone ==
  /\ runStatus = "split" /\ splitIdx > Len(inputDataTables)
  /\ runStatus' = "combine"
  /\ UNCHANGED <<driver, inputDataTables, envDataTables, nonEnvDataTables, splitIdx>>

\* the rows of a group of tables, each row named <<table, row>>
RowsOf(list) ==
  {<<list[i], r>> : i \in {j \in 1..Len(list) : list[j] # 0},
                    r \in 1..MaxLodRows} \cap
  {<<t, r>> \in (1..MaxInputs) \X (1..MaxLodRows) :
     t <= Len(inputDataTables) /\ r <= Len(inputDataTables[t].lod)}

\* main after the split: combine(nonEnvDataTables) dereferences every pointer
\* of the list; no table or no row throws "No splats to write"; else the two
\* combined tables go to writeFile.
CombineGroups ==
  /\ runStatus = "combine"
  /\ runStatus' = IF \E i \in 1..Len(nonEnvDataTables) : nonEnvDataTables[i] = 0
                  THEN "crash"
                  ELSE IF RowsOf(nonEnvDataTables) = {} THEN "exit1"
                  ELSE "written"
  /\ UNCHANGED <<driver, inputDataTables, envDataTables, nonEnvDataTables, splitIdx>>

EnvInit == EnvStart /\ TableIdle /\ MortonIdle /\ LodIdle /\ PoolIdle /\ CallIdle /\ OctIdle /\ KmIdle

EnvNext ==
  \/ SplitApp /\ UNCHANGED <<tableVars, mortonVars, lodVars, poolVars, callVars, octVars, kmVars>>
  \/ SplitTransformKept /\ UNCHANGED <<tableVars, mortonVars, lodVars, poolVars, callVars, octVars, kmVars>>
  \/ SplitTransformReleased /\ UNCHANGED <<tableVars, mortonVars, lodVars, poolVars, callVars, octVars, kmVars>>
  \/ SplitDone /\ UNCHANGED <<tableVars, mortonVars, lodVars, poolVars, callVars, octVars, kmVars>>
  \/ CombineGroups /\ UNCHANGED <<tableVars, mortonVars, lodVars, poolVars, callVars, octVars, kmVars>>

SpecEnv == EnvInit /\ [][EnvNext]_vars

\* the sub-tables handed on once the split loop is over
envSubTable == RowsOf(envDataTables)
mainSubTable == RowsOf(nonEnvDataTables)

LodRows == {<<t, r>> \in (1..MaxInputs) \X (1..MaxLodRows) :
              /\ t <= Len(inputDataTables) /\ r <= Len(inputDataTables[t].lod)
              /\ inputDataTables[t].hasLod}

\* C2: for every input table with a `lod` column, the rows in the environment
\* sub-table are exactly the rows with lod == -1, and no row with lod == -1 is
\* in the main sub-table.
C2_EnvironmentSplit ==
  runStatus \in {"combine", "written", "exit1"} =>
    \A p \in LodRows :
      LET isEnvRow == inputDataTables[p[1]].lod[p[2]] = -1
      IN /\ (p \in envSubTable) <=> isEnvRow
         /\ isEnvRow => p \notin mainSubTable

InputRows == {<<t, r>> \in (1..MaxInputs) \X (1..MaxLodRows) :
                t <= Len(inputDataTables) /\ r <= Len(inputDataTables[t].lod)}

\* C27: every input row that is not an environment row (its table has no
\* lod column, or its lod is not -1) is exactly once in the main table that
\* is combined and handed on; a table whose lod values are all >= 0 is kept.
C27_NonEnvRowsKeptOnce ==
  runStatus \in {"written", "exit1"} =>
    \A p \in InputRows :
      (~inputDataTables[p[1]].hasLod \/ inputDataTables[p[1]].lod[p[2]] # -1) =>
        Cardinality({i \in 1..Len(nonEnvDataTables) : nonEnvDataTables[i] = p[1]}) = 1

----------------------------------------------------------------------------
(***************************************************************************)
(* Morton ordering: src/src/models/morton-order.cpp (sortMortonOrder),     *)
(* src/src/data_table.cpp (generateOrdering)                               *)
(***************************************************************************)
\* Model bounds. The code recurses into runs of more than 256 equal codes
\* (morton-order.cpp:105, BUCKET_THRESHOLD in data_table.cpp:352); the model
\* keeps the comparison and scales the threshold to buffers TLC can enumerate.
MaxBuf == 4
BucketThreshold == 2

Pow2(n) == 2 ^ n
Bit(v, i) == (v \div Pow2(i)) % 2

\* the bit positions of a 32-bit mask written as its 8 hex digits
MaskBits(hex) == {i \in 0..31 : Bit(hex[8 - (i \div 4)], i % 4) = 1}

\* v & mask, for v < 2^31
And32(v, mask) ==
  LET bits == {i \in mask : i <= 30 /\ Bit(v, i) = 1}
      RECURSIVE Sum(_)
      Sum(S) == IF S = {} THEN 0
                ELSE LET i == CHOOSE j \in S : TRUE IN Pow2(i) + Sum(S \ {i})
  IN Sum(bits)

\* (x ^ (x << k)) & mask in 32 bits, for x < 2^31: bit i of x << k is bit
\* i - k of x, and the bits shifted past bit 31 are lost
XorShiftAnd(x, k, mask) ==
  LET ShlBit(i) == IF i >= k THEN Bit(x, i - k) ELSE 0
      bits == {i \in mask : i <= 30 /\ Bit(x, i) # ShlBit(i)}
      RECURSIVE Sum(_)
      Sum(S) == IF S = {} THEN 0
                ELSE LET i == CHOOSE j \in S : TRUE IN Pow2(i) + Sum(S \ {i})
  IN Sum(bits)

\* part1By2: spread the low 10 bits so that two zero bits follow each
part1By2(x) ==
  LET x0 == And32(x, MaskBits(<<0, 0, 0, 0, 0, 3, 15, 15>>))           \* 0x000003ff
      x1 == XorShiftAnd(x0, 16, MaskBits(<<15, 15, 0, 0, 0, 0, 15, 15>>)) \* 0xff0000ff
      x2 == XorShiftAnd(x1, 8, MaskBits(<<0, 3, 0, 0, 15, 0, 0, 15>>))   \* 0x0300f00f
      x3 == XorShiftAnd(x2, 4, MaskBits(<<0, 3, 0, 12, 3, 0, 12, 3>>))   \* 0x030c30c3
  IN XorShiftAnd(x3, 2, MaskBits(<<0, 9, 2, 4, 9, 2, 4, 9>>))            \* 0x09249249

\* part1By2 over the cells 0..1023 the callers pass, computed once
part1By2Table == [x \in 0..1023 |-> part1By2(x)]

encodeMorton3(x, y, z) == part1By2Table[z] * 4 + part1By2Table[y] * 2 + part1By2Table[x]

\* The table the buffer refers to: its x, y, z columns, row 0 first. The
\* coordinates are integers; on them the float products (c - min) * (1024 / len)
\* truncate to the same cell as the exact quotient. Rows 0, 1, 2 and 4 fall
\* into one cell whenever the far row 5 is in the buffer; row 3 repeats row 0.
cx == <<0, 1, 2, 0, 0, 4096>>
cy == <<0, 0, 0, 0, 2, 4096>>
cz == <<0, 0, 0, 0, 0, 4096>>
RowIds == 0..(Len(cx) - 1)
MortonTable == [x |-> cx, y |-> cy, z |-> cz]

SeqMin(s) == CHOOSE v \in Range(s) : \A w \in Range(s) : v <= w
SeqMax(s) == CHOOSE v \in Range(s) : \A w \in Range(s) : v >= w

\* min(1023u, uint32((c - m) * mul)) with mul = 0 for a zero extent
cell(c, m, len) ==
  IF len = 0 THEN 0
  ELSE LET q == ((c - m) * 1024) \div len IN IF q > 1023 THEN 1023 ELSE q

\* sortMortonOrder lines 55-84: the Morton code of every buffer entry, or <<>>
\* when the function returns early (all extents zero)
mortonCodes(tbl, indices) ==
  LET xs == [i \in 1..Len(indices) |-> tbl.x[indices[i] + 1]]
      ys == [i \in 1..Len(indices) |-> tbl.y[indices[i] + 1]]
      zs == [i \in 1..Len(indices) |-> tbl.z[indices[i] + 1]]
      mx == SeqMin(xs)
      my == SeqMin(ys)
      mz == SeqMin(zs)
      xlen == SeqMax(xs) - mx
      ylen == SeqMax(ys) - my
      zlen == SeqMax(zs) - mz
  IN IF xlen = 0 /\ ylen = 0 /\ zlen = 0 THEN <<>>
     ELSE [i \in 1..Len(indices) |->
             encodeMorton3(cell(xs[i], mx, xlen), cell(ys[i], my, ylen),
                           cell(zs[i], mz, zlen))]

\* std::stable_sort of order = 1..n by mortonCodes[a] < mortonCodes[b]:
\* insertion after every element that is not greater
InsertStable(sorted, a, codes) ==
  LET k == Cardinality({i \in 1..Len(sorted) : codes[sorted[i]] <= codes[a]})
  IN SubSeq(sorted, 1, k) \o <<a>> \o SubSeq(sorted, k + 1, Len(sorted))

RECURSIVE stable_sort(_, _, _)
stable_sort(sorted, a, codes) ==
  IF a > Len(codes) THEN sorted
  ELSE stable_sort(InsertStable(sorted, a, codes), a + 1, codes)

\* a buffer that keeps the sort order instead of the entries it points at
applyOrder_StoresOrder(tmpIndices, order) == [i \in 1..Len(order) |-> order[i] - 1]

\* lines 93-96: indices[i] = tmpIndices[order[i]]
applyOrder(tmpIndices, order) == [i \in 1..Len(order) |-> tmpIndices[order[i]]]

\* lines 99-103: the end (exclusive, 1-based) of the run of equal codes at start
RECURSIVE runEnd(_, _, _, _)
runEnd(codes, order, start, end) ==
  IF end <= Len(order) /\ codes[order[end]] = codes[order[start]]
  THEN runEnd(codes, order, start, end + 1)
  ELSE end

\* lines 48-110. The recursive call works on the subspan in place.
RECURSIVE sortMortonOrder(_, _)
RECURSIVE sortRuns(_, _, _, _, _)
sortRuns(tbl, indices, codes, order, start) ==
  IF start > Len(indices) THEN indices
  ELSE LET end == runEnd(codes, order, start, start + 1)
           sub == SubSeq(indices, start, end - 1)
           next == IF end - start > BucketThreshold
                   THEN SubSeq(indices, 1, start - 1) \o sortMortonOrder(tbl, sub)
                        \o SubSeq(indices, end, Len(indices))
                   ELSE indices
       IN sortRuns(tbl, next, codes, order, end)

sortMortonOrder(tbl, indices) ==
  IF indices = <<>> THEN indices
  ELSE LET codes == mortonCodes(tbl, indices)
       IN IF codes = <<>> THEN indices
          ELSE LET order == stable_sort(<<>>, 1, codes)
               IN sortRuns(tbl, applyOrder(indices, order), codes, order, 1)

\* std::sort of order = 1..n by morton[a] < morton[b] (data_table.cpp:337):
\* the order of equal codes is unspecified, so every ascending arrangement
\* is an outcome
sortOutcomes(codes) ==
  LET n == Len(codes)
  IN {p \in [1..n -> 1..n] :
        /\ \A i, j \in 1..n : i # j => p[i] # p[j]
        /\ \A i \in 1..(n - 1) : codes[p[i]] <= codes[p[i + 1]]}

\* generateOrdering (data_table.cpp:246-380): the set of buffers it can leave
RECURSIVE generate(_, _)
RECURSIVE generateRuns(_, _, _, _, _)
generateRuns(tbl, currentIndices, morton, order, start) ==
  IF start > Len(currentIndices) THEN {currentIndices}
  ELSE LET end == runEnd(morton, order, start, start + 1)
           sub_indices == SubSeq(currentIndices, start, end - 1)
       IN IF end - start > BucketThreshold
          THEN UNION {generateRuns(tbl, SubSeq(currentIndices, 1, start - 1) \o sorted
                                     \o SubSeq(currentIndices, end, Len(currentIndices)),
                                   morton, order, end) : sorted \in generate(tbl, sub_indices)}
          ELSE generateRuns(tbl, currentIndices, morton, order, end)

generate(tbl, currentIndices) ==
  IF currentIndices = <<>> THEN {currentIndices}
  ELSE LET morton == mortonCodes(tbl, currentIndices)
       IN IF morton = <<>> THEN {currentIndices}
          ELSE UNION {generateRuns(tbl, applyOrder(currentIndices, order), morton, order, 1) :
                        order \in sortOutcomes(morton)}

MortonStart ==
  /\ mortonIn \in SeqsUpTo(RowIds, MaxBuf)
  /\ mortonBuf = mortonIn
  /\ mortonFn = "none"

SortMortonOrder ==
  /\ mortonFn = "none"
  /\ mortonBuf' = sortMortonOrder(MortonTable, mortonBuf)
  /\ mortonFn' = "sortMortonOrder"
  /\ UNCHANGED mortonIn

GenerateOrdering ==
  /\ mortonFn = "none"
  /\ mortonBuf' \in generate(MortonTable, mortonBuf)
  /\ mortonFn' = "generateOrdering"
  /\ UNCHANGED mortonIn

MortonInit == MortonStart /\ TableIdle /\ EnvIdle /\ LodIdle /\ PoolIdle /\ CallIdle /\ OctIdle /\ KmIdle

MortonNext ==
  \/ SortMortonOrder /\ UNCHANGED <<tableVars, envVars, lodVars, poolVars, callVars, octVars, kmVars>>
  \/ GenerateOrdering /\ UNCHANGED <<tableVars, envVars, lodVars, poolVars, callVars, octVars, kmVars>>

SpecMorton == MortonInit /\ [][MortonNext]_vars

\* the entries of buf whose code, among the codes of the call on mortonIn, is c
EntriesWithCode(buf, codeOfRow, c) == SelectSeq(buf, LAMBDA r : codeOfRow[r] = c)

\* the Morton code the call on mortonIn gives each row the buffer refers to
CodeOfRow ==
  LET codes == mortonCodes(MortonTable, mortonIn)
  IN [r \in Range(mortonIn) |->
        codes[CHOOSE i \in 1..Len(mortonIn) : mortonIn[i] = r]]

Sorted == mortonFn # "none" /\ mortonIn # <<>> /\ mortonCodes(MortonTable, mortonIn) # <<>>

\* C8: after sortMortonOrder or generateOrdering, the buffer entries that
\* share a Morton code stand in the same relative order as in the input buffer.
C8_MortonStability ==
  Sorted => \A c \in Range(mortonCodes(MortonTable, mortonIn)) :
              EntriesWithCode(mortonBuf, CodeOfRow, c) = EntriesWithCode(mortonIn, CodeOfRow, c)

CountIn(s, v) == Cardinality({i \in 1..Len(s) : s[i] = v})
IsPermutationOf(a, b) ==
  /\ Len(a) = Len(b)
  /\ \A v \in Range(a) \cup Range(b) : CountIn(a, v) = CountIn(b, v)

\* the call on mortonIn met a run of more than BucketThreshold equal codes
Recursed ==
  LET codes == mortonCodes(MortonTable, mortonIn)
  IN \E c \in Range(codes) : CountIn(codes, c) > BucketThreshold

\* C9: the index buffer after sortMortonOrder, recursive calls on long runs of
\* equal codes included, is a permutation of the index buffer before the call.
C9_SortIsPermutation ==
  mortonFn = "sortMortonOrder" => IsPermutationOf(mortonIn, mortonBuf)

C9_Witness ==
  /\ mortonFn = "sortMortonOrder"
  /\ Sorted
  /\ Recursed
  /\ mortonBuf # applyOrder(mortonIn, stable_sort(<<>>, 1, mortonCodes(MortonTable, mortonIn)))

----------------------------------------------------------------------------
(***************************************************************************)
(* writeLod: the BTree over the centroids and the walk that packs leaf     *)
(* groups into file units. src/src/spatial/btree.cpp,                      *)
(* src/src/io/lod_writer.cpp, src/src/writers/lod_writer.cpp               *)
(***************************************************************************)
\* Model bounds. The code makes a BTree leaf of at most 256 rows
\* (btree.cpp:176) and counts lodChunkCount in units of 1024 rows
\* (lod_writer.cpp:174); the model keeps both comparisons, and the order
\* LeafSizeThreshold < RowsPerChunkCount, on tables TLC can enumerate.
MaxLodTableRows == 4
LeafSizeThreshold == 1
RowsPerChunkCount == 2

\* the rows a table is made of: centroid and lod value
LodRowSet ==
  {[p |-> <<0, 0, 0>>, lod |-> 0], [p |-> <<1, 0, 0>>, lod |-> 0],
   [p |-> <<0, 4, 0>>, lod |-> 0], [p |-> <<0, 4, 0>>, lod |-> 1],
   [p |-> <<0, 0, 1>>, lod |-> 0]}
ChunkCounts == {1, 2}
ChunkExtents == {2, 8}

\* quickselect (btree.cpp:42-94) on positions numbered from 0
valAt(data, idx, q) == data[idx[q + 1] + 1]
swap(idx, i, j) ==
  [q \in 1..Len(idx) |-> IF q = i + 1 THEN idx[j + 1]
                         ELSE IF q = j + 1 THEN idx[i + 1] ELSE idx[q]]

RECURSIVE scanUp(_, _, _, _)
scanUp(data, idx, i, pivotVal) ==
  IF i < Len(idx) /\ valAt(data, idx, i) < pivotVal
  THEN scanUp(data, idx, i + 1, pivotVal) ELSE i

RECURSIVE scanDown(_, _, _, _)
scanDown(data, idx, j, pivotVal) ==
  IF j >= 0 /\ valAt(data, idx, j) > pivotVal
  THEN scanDown(data, idx, j - 1, pivotVal) ELSE j

\* lines 78-88: the partition loop; [idx, i, j] when it breaks
RECURSIVE partition(_, _, _, _, _)
partition(data, idx, i0, j0, pivotVal) ==
  LET i == scanUp(data, idx, i0 + 1, pivotVal)
      j == scanDown(data, idx, j0 - 1, pivotVal)
  IN IF j < i THEN [idx |-> idx, i |-> i, j |-> j]
     ELSE partition(data, swap(idx, i, j), i, j, pivotVal)

\* the index array as quickselect leaves it
RECURSIVE quickselect(_, _, _, _, _)
quickselect(data, idx, k, l, r) ==
  IF r <= l + 1
  THEN IF r = l + 1 /\ valAt(data, idx, r) < valAt(data, idx, l) THEN swap(idx, l, r) ELSE idx
  ELSE LET mid == (l + r) \div 2
           a1 == swap(idx, mid, l + 1)
           a2 == IF valAt(data, a1, l) > valAt(data, a1, r) THEN swap(a1, l, r) ELSE a1
           a3 == IF valAt(data, a2, l + 1) > valAt(data, a2, r) THEN swap(a2, l + 1, r) ELSE a2
           a4 == IF valAt(data, a3, l) > valAt(data, a3, l + 1) THEN swap(a3, l, l + 1) ELSE a3
           pivotVal == valAt(data, a4, l + 1)
           pivotIdx == a4[l + 2]
           part == partition(data, a4, l + 1, r, pivotVal)
           j == part.j
           a5 == [part.idx EXCEPT ![l + 2] = part.idx[j + 1], ![j + 1] = pivotIdx]
       IN quickselect(data, a5, k, IF j <= k THEN part.i ELSE l, IF j >= k THEN j - 1 ELSE r)

\* AABB::fromCentroids over a non-empty index list
fromCentroids(centroids, indices) ==
  [min |-> [c \in 1..3 |-> SeqMin([q \in 1..Len(indices) |-> centroids[indices[q] + 1][c]])],
   max |-> [c \in 1..3 |-> SeqMax([q \in 1..Len(indices) |-> centroids[indices[q] + 1][c]])]]

\* AABB::largestAxis: the first axis of the largest extent
largestAxis(aabb) ==
  CHOOSE c \in 1..3 :
    /\ \A d \in 1..(c - 1) : aabb.max[d] - aabb.min[d] < aabb.max[c] - aabb.min[c]
    /\ \A d \in (c + 1)..3 : aabb.max[d] - aabb.min[d] <= aabb.max[c] - aabb.min[c]

largestDim(aabb) == aabb.max[largestAxis(aabb)] - aabb.min[largestAxis(aabb)]

\* BTree::recurse (btree.cpp:170-204)
RECURSIVE recurse(_, _)
recurse(centroids, indices) ==
  LET aabb == fromCentroids(centroids, indices)
  IN IF Len(indices) <= LeafSizeThreshold
     THEN [null |-> FALSE, count |-> Len(indices), aabb |-> aabb, indices |-> indices,
           left |-> NullNode, right |-> NullNode]
     ELSE LET col == largestAxis(aabb)
              values == [q \in 1..Len(centroids) |-> centroids[q][col]]
              mid == Len(indices) \div 2
              parted == quickselect(values, indices, mid, 0, Len(indices) - 1)
              left == recurse(centroids, SubSeq(parted, 1, mid))
              right == recurse(centroids, SubSeq(parted, mid + 1, Len(parted)))
          IN [null |-> FALSE, count |-> left.count + right.count, aabb |-> aabb,
              indices |-> <<>>, left |-> left, right |-> right]

\* BTree::BTree: the root over the rows 0..numRows-1
BTree(centroids) == recurse(centroids, [q \in 1..Len(centroids) |-> q - 1])

\* quickselect, one loop test at a time, in its two variants: "spatial"
\* (src/src/spatial/btree.cpp:42-96, int positions) and "maths"
\* (src/src/maths/btree.cpp:42-135, size_t positions). The state is the
\* index array, the bounds l and r, the cursors i and j and the pivot.
qsEnter(variant, data, idx, k) ==
  IF idx = <<>>
  THEN IF variant = "spatial" THEN [pc |-> "returned", idx |-> idx]   \* returns 0
       ELSE [pc |-> "threw", idx |-> idx]                              \* k >= n
  ELSE IF variant = "maths" /\ k >= Len(idx) THEN [pc |-> "threw", idx |-> idx]
  ELSE [pc |-> "top", idx |-> idx, l |-> 0, r |-> Len(idx) - 1, i |-> 0, j |-> 0,
        pivotVal |-> 0, pivotIdx |-> 0]

\* the head of the outer loop: the base case, or the median of three
qsTop(variant, data, k, st) ==
  IF st.r <= st.l + 1
  THEN LET a == IF st.r = st.l + 1 /\ valAt(data, st.idx, st.r) < valAt(data, st.idx, st.l)
                THEN swap(st.idx, st.l, st.r) ELSE st.idx
       IN IF variant = "spatial" \/ (k >= st.l /\ k <= st.r)
          THEN [pc |-> "returned", idx |-> a]
          ELSE [pc |-> "threw", idx |-> a]
  ELSE LET l == st.l
           r == st.r
           mid == IF variant = "spatial" THEN (l + r) \div 2 ELSE l + (r - l) \div 2
           a1 == swap(st.idx, mid, l + 1)
           a2 == IF valAt(data, a1, l) > valAt(data, a1, r) THEN swap(a1, l, r) ELSE a1
           a3 == IF valAt(data, a2, l + 1) > valAt(data, a2, r) THEN swap(a2, l + 1, r) ELSE a2
           a4 == IF valAt(data, a3, l) > valAt(data, a3, l + 1) THEN swap(a3, l, l + 1) ELSE a3
       IN [st EXCEPT !.pc = "scan_i", !.idx = a4, !.i = l + 1, !.j = r,
                     !.pivotVal = valAt(data, a4, l + 1), !.pivotIdx = a4[l + 2]]

\* do { i++; } while (...): one increment and the test that follows it
qsScanI(variant, data, st) ==
  LET i == st.i + 1
      inRange == IF variant = "spatial" THEN i < Len(st.idx) ELSE i <= st.r
  IN IF inRange /\ valAt(data, st.idx, i) < st.pivotVal
     THEN [st EXCEPT !.i = i]
     ELSE [st EXCEPT !.i = i, !.pc = "scan_j"]

\* do { j--; } while (...): a size_t j that is decremented at 0 wraps, passes
\* the test j >= l and indexes past the array
qsScanJ(variant, data, st) ==
  LET j == st.j - 1
  IN IF j < 0
     THEN IF variant = "spatial" THEN [st EXCEPT !.j = j, !.pc = "test"]
          ELSE [pc |-> "out_of_bounds", idx |-> st.idx]
     ELSE IF (variant = "spatial" \/ j >= st.l) /\ valAt(data, st.idx, j) > st.pivotVal
          THEN [st EXCEPT !.j = j]
          ELSE [st EXCEPT !.j = j, !.pc = "test"]

\* a narrowing that keeps the left bound when the pivot lands left of k
qsNarrow_KeepsLeft(variant, k, st) ==
  IF variant = "spatial"
  THEN [st EXCEPT !.pc = "top", !.r = IF st.j >= k THEN st.j - 1 ELSE st.r]
  ELSE IF st.j = k THEN [pc |-> "returned", idx |-> st.idx]
       ELSE IF st.j > k THEN [st EXCEPT !.pc = "top", !.r = st.j - 1]
       ELSE [st EXCEPT !.pc = "top"]

\* step 5: narrow [l, r] around k once the pivot stands at j
qsNarrow(variant, k, st) ==
  IF variant = "spatial"
  THEN [st EXCEPT !.pc = "top",
                  !.r = IF st.j >= k THEN st.j - 1 ELSE st.r,
                  !.l = IF st.j <= k THEN st.i ELSE st.l]
  ELSE IF st.j = k THEN [pc |-> "returned", idx |-> st.idx]
       ELSE IF st.j > k THEN [st EXCEPT !.pc = "top", !.r = st.j - 1]
       ELSE [st EXCEPT !.pc = "top", !.l = st.j + 1]

\* if (j < i) break; swap(i, j); and, after the break, the pivot's placement
qsTest(variant, k, st) ==
  IF st.j < st.i
  THEN qsNarrow(variant, k,
         [st EXCEPT !.idx = [st.idx EXCEPT ![st.l + 2] = st.idx[st.j + 1],
                                           ![st.j + 1] = st.pivotIdx]])
  ELSE [st EXCEPT !.idx = swap(st.idx, st.i, st.j), !.pc = "scan_i"]

qsRunning(st) == st.pc \in {"top", "scan_i", "scan_j", "test"}

qsStep(variant, data, k, st) ==
  CASE st.pc = "top" -> qsTop(variant, data, k, st)
    [] st.pc = "scan_i" -> qsScanI(variant, data, st)
    [] st.pc = "scan_j" -> qsScanJ(variant, data, st)
    [] st.pc = "test" -> qsTest(variant, k, st)

\* the call run to its end
RECURSIVE qsRun(_, _, _, _)
qsRun(variant, data, k, st) ==
  IF qsRunning(st) THEN qsRun(variant, data, k, qsStep(variant, data, k, st)) ELSE st

\* BTree::recurse of src/src/maths/btree.cpp:212-264. The result is the
\* node, or [threw |-> TRUE] when quickselect leaves by an exception.
RECURSIVE recurseMaths(_, _)
recurseMaths(centroids, indices) ==
  LET aabb == fromCentroids(centroids, indices)
      leaf == [null |-> FALSE, count |-> Len(indices), aabb |-> aabb, indices |-> indices,
               left |-> NullNode, right |-> NullNode]
  IN IF Len(indices) <= LeafSizeThreshold THEN leaf
     ELSE LET col == largestAxis(aabb)
              values == [q \in 1..Len(centroids) |-> centroids[q][col]]
              mid == Len(indices) \div 2
              sel == qsRun("maths", values, mid, qsEnter("maths", values, indices, mid))
              leftIndices == SubSeq(sel.idx, 1, mid)
              rightIndices == SubSeq(sel.idx, mid + 1, Len(sel.idx))
          IN IF sel.pc # "returned" THEN [null |-> FALSE, threw |-> TRUE]
             ELSE LET left == recurseMaths(centroids, leftIndices)
                      right == recurseMaths(centroids, leftIndices)
                  IN IF "threw" \in DOMAIN left \/ "threw" \in DOMAIN right
                     THEN [null |-> FALSE, threw |-> TRUE]
                     ELSE [null |-> FALSE, count |-> Len(indices), aabb |-> aabb,
                           indices |-> <<>>, left |-> left, right |-> right]

\* the root the BTree constructor of the variant builds over rows 0..numRows-1
BTreeOf(variant, centroids) ==
  IF variant = "maths" THEN recurseMaths(centroids, [q \in 1..Len(centroids) |-> q - 1])
  ELSE BTree(centroids)

binSize == lodChunkCount * RowsPerChunkCount
binDim == lodChunkExtent

\* lod_writer.cpp:183: build() goes into the two children
recurseIntoChildren_And(node) ==
  node.indices = <<>> /\ node.count > binSize /\ largestDim(node.aabb) > binDim

recurseIntoChildren(node) ==
  node.indices = <<>> /\ (node.count > binSize \/ largestDim(node.aabb) > binDim)

\* the leaves under node, left to right: <<position in its leaf, row>>
RECURSIVE leafEntries(_)
leafEntries(node) ==
  IF node.null THEN <<>>
  ELSE IF node.indices # <<>>
       THEN [q \in 1..Len(node.indices) |-> <<q - 1, node.indices[q]>>]
       ELSE leafEntries(node.left) \o leafEntries(node.right)

\* the row indices in the leaves under node, left to right
leafRows(node) == [q \in 1..Len(leafEntries(node)) |-> leafEntries(node)[q][2]]

\* binIndices of src/src/io: every row under node, by lod[v]
binIndicesIo(node, lod) ==
  LET entries == leafEntries(node)
      rows == [q \in 1..Len(entries) |-> entries[q][2]]
  IN [k \in {lod[rows[q] + 1] : q \in 1..Len(rows)} |->
        SelectSeq(rows, LAMBDA v : lod[v + 1] = k)]

\* binIndices of src/src/writers: the key is lod[i], i the position in the
\* leaf, and a row is stored only under a key the map does not hold yet
RECURSIVE binIndicesWriters(_, _, _, _)
binIndicesWriters(entries, q, lod, result) ==
  IF q > Len(entries) THEN result
  ELSE LET lodValue == lod[entries[q][1] + 1]
           v == entries[q][2]
       IN binIndicesWriters(entries, q + 1, lod,
            IF lodValue \in DOMAIN result THEN result
            ELSE [k \in DOMAIN result \cup {lodValue} |->
                    IF k = lodValue THEN <<v>> ELSE result[k]])

binIndices(node, lod) ==
  IF lodVariant = "io" THEN binIndicesIo(node, lod)
  ELSE binIndicesWriters(leafEntries(node), 1, lod, <<>>)

\* a unit closed as soon as it reaches the limit
startsNewUnit_AtLimit(fileSize, n) == fileSize + n >= binSize

\* lod_writer.cpp:232: after the append, the list gets a new empty unit
startsNewUnit(fileSize, n) == fileSize + n > binSize

unitSize(unit) == SumSeq([q \in 1..Len(unit) |-> Len(unit[q])])
IndexOf(seq, v) == CHOOSE q \in 1..Len(seq) : seq[q] = v
Max(a, b) == IF a > b THEN a ELSE b

\* lod_writer.cpp:198-236: one turn of the loop over the bins
appendBin(st, lodValue, indices) ==
  LET fileList == IF lodValue \in DOMAIN st.lodFiles THEN st.lodFiles[lodValue] ELSE << <<>> >>
      fileIndex == Len(fileList) - 1
      lastFile == fileList[Len(fileList)]
      fileSize == unitSize(lastFile)
      filename == <<lodValue, fileIndex>>
      names == IF filename \in Range(st.filenames) THEN st.filenames
               ELSE Append(st.filenames, filename)
      fileIdxInMeta == IndexOf(names, filename) - 1
      appended == [fileList EXCEPT ![Len(fileList)] = Append(lastFile, indices)]
      after == IF startsNewUnit(fileSize, Len(indices)) THEN Append(appended, <<>>) ELSE appended
  IN [lodFiles |-> [k \in DOMAIN st.lodFiles \cup {lodValue} |->
                      IF k = lodValue THEN after ELSE st.lodFiles[k]],
      filenames |-> names,
      lodLevels |-> Max(st.lodLevels, lodValue + 1),
      lods |-> [k \in DOMAIN st.lods \cup {lodValue} |->
                  IF k = lodValue
                  THEN [file |-> fileIdxInMeta, offset |-> fileSize, count |-> Len(indices)]
                  ELSE st.lods[k]]]

\* the loop over the bins, in ascending order of the lod value
RECURSIVE appendBins(_, _, _)
appendBins(st, bins, todo) ==
  IF todo = {} THEN st
  ELSE LET lodValue == CHOOSE k \in todo : \A m \in todo : k <= m
       IN appendBins(appendBin(st, lodValue, bins[lodValue]), bins, todo \ {lodValue})

\* src/src/io/lod_writer.cpp includes splat/spatial/btree.h,
\* src/src/writers/lod_writer.cpp includes splat/maths/btree.h
btreeVariantOf(variant) == IF variant = "writers" THEN "maths" ELSE "spatial"

LodStart ==
  /\ lodVariant \in {"io", "writers"}
  /\ lodTable \in UNION {[1..n -> LodRowSet] : n \in 1..MaxLodTableRows}
  /\ lodChunkCount \in ChunkCounts
  /\ lodChunkExtent \in ChunkExtents
  /\ walkStack = <<BTreeOf(btreeVariantOf(lodVariant), [q \in 1..Len(lodTable) |-> lodTable[q].p])>>
  /\ lodFiles = <<>>
  /\ filenames = <<>>
  /\ lodLevels = 0
  /\ lastVisit = NoVisit

\* build() on an interior node it recurses into
BuildRecurse ==
  /\ walkStack # <<>>
  /\ recurseIntoChildren(Head(walkStack))
  /\ walkStack' = <<Head(walkStack).left, Head(walkStack).right>> \o Tail(walkStack)
  /\ lastVisit' = [kind |-> "recurse", node |-> Head(walkStack)]
  /\ UNCHANGED <<lodVariant, lodTable, lodChunkCount, lodChunkExtent, lodFiles, filenames,
                 lodLevels>>

\* build() on a node it emits as a leaf group
BuildLeafGroup ==
  /\ walkStack # <<>>
  /\ ~recurseIntoChildren(Head(walkStack))
  /\ LET node == Head(walkStack)
         bins == binIndices(node, [q \in 1..Len(lodTable) |-> lodTable[q].lod])
         st == appendBins([lodFiles |-> lodFiles, filenames |-> filenames,
                           lodLevels |-> lodLevels, lods |-> <<>>], bins, DOMAIN bins)
     IN /\ lodFiles' = st.lodFiles
        /\ filenames' = st.filenames
        /\ lodLevels' = st.lodLevels
        /\ lastVisit' = [kind |-> "leaf", node |-> node, lods |-> st.lods]
  /\ walkStack' = Tail(walkStack)
  /\ UNCHANGED <<lodVariant, lodTable, lodChunkCount, lodChunkExtent>>

LodInit == LodStart /\ TableIdle /\ EnvIdle /\ MortonIdle /\ PoolIdle /\ CallIdle /\ OctIdle /\ KmIdle

LodNext ==
  \/ BuildRecurse /\ UNCHANGED <<tableVars, envVars, mortonVars, poolVars, callVars, octVars, kmVars>>
  \/ BuildLeafGroup /\ UNCHANGED <<tableVars, envVars, mortonVars, poolVars, callVars, octVars, kmVars>>

SpecLod == LodInit /\ [][LodNext]_vars

AllUnits == UNION {{lodFiles[k][u] : u \in 1..Len(lodFiles[k])} : k \in DOMAIN lodFiles}

\* the unit's running count when its last index list was appended
countBeforeLast(unit) == IF unit = <<>> THEN 0 ELSE unitSize(SubSeq(unit, 1, Len(unit) - 1))

placesOf(v) ==
  {pl \in UNION {{<<k, u, q, c>> : c \in 1..Len(lodFiles[k][u][q])} :
                   <<k, u, q>> \in UNION {UNION {{<<k2, u2, q2>> : q2 \in 1..Len(lodFiles[k2][u2])} :
                                                   u2 \in 1..Len(lodFiles[k2])} :
                                            k2 \in DOMAIN lodFiles}} :
     lodFiles[pl[1]][pl[2]][pl[3]][pl[4]] = v}

\* C25: once the walk over the BTree is done, every row index of the table
\* stands exactly once in the file units, in a unit of its own lod value.
C25_EveryRowFiledOnce ==
  walkStack = <<>> =>
    \A v \in 0..(Len(lodTable) - 1) :
      /\ Cardinality(placesOf(v)) = 1
      /\ \A pl \in placesOf(v) : pl[1] = lodTable[v + 1].lod

\* the same for the variant of src/src/io alone
IoEveryRowFiledOnce ==
  (walkStack = <<>> /\ lodVariant = "io") =>
    \A v \in 0..(Len(lodTable) - 1) :
      /\ Cardinality(placesOf(v)) = 1
      /\ \A pl \in placesOf(v) : pl[1] = lodTable[v + 1].lod

\* the x, y, z columns of the table writeLod was given
lodColumns ==
  [x |-> [q \in 1..Len(lodTable) |-> lodTable[q].p[1]],
   y |-> [q \in 1..Len(lodTable) |-> lodTable[q].p[2]],
   z |-> [q \in 1..Len(lodTable) |-> lodTable[q].p[3]]]

RECURSIVE Flatten(_)
Flatten(lists) == IF lists = <<>> THEN <<>> ELSE Head(lists) \o Flatten(Tail(lists))

\* a task that sorts the whole unit at once
unitIndices_SortsWholeUnit(tbl, unit) == sortMortonOrder(tbl, Flatten(unit))

\* lod_writer.cpp:311-323: the task copies the unit's index lists one after
\* the other and Morton-sorts each within its own span; row q of the
\* sub-table permuteRows returns is row indices[q] of the table
unitIndices(tbl, unit) ==
  Flatten([q \in 1..Len(unit) |-> sortMortonOrder(tbl, unit[q])])

\* the rows under node whose lod value is k
groupRows(node, k) == SelectSeq(leafRows(node), LAMBDA v : lodTable[v + 1].lod = k)

\* the unit written to filenames[file]: lod_writer.cpp:213-218 names it
\* <lodValue>_<fileIndex> and lines 296-300 write unit i of lodValue there
unitOfFile(file) == lodFiles[filenames[file + 1][1]][filenames[file + 1][2] + 1]

EntryDesignatesGroup ==
  (lastVisit.kind = "leaf" /\ lodVariant = "io") =>
    \A k \in {lodTable[v + 1].lod : v \in Range(leafRows(lastVisit.node))} :
      /\ k \in DOMAIN lastVisit.lods
      /\ LET e == lastVisit.lods[k]
             written == unitIndices(lodColumns, unitOfFile(e.file))
         IN /\ e.offset + e.count <= Len(written)
            /\ IsPermutationOf(SubSeq(written, e.offset + 1, e.offset + e.count),
                               groupRows(lastVisit.node, k))

\* what has been appended to a unit stays where it is
UnitsOnlyGrow ==
  \A k \in DOMAIN lodFiles :
    /\ k \in DOMAIN lodFiles'
    /\ Len(lodFiles[k]) <= Len(lodFiles'[k])
    /\ \A u \in 1..Len(lodFiles[k]) :
         /\ Len(lodFiles[k][u]) <= Len(lodFiles'[k][u])
         /\ SubSeq(lodFiles'[k][u], 1, Len(lodFiles[k][u])) = lodFiles[k][u]

\* C26: for every leaf group and every lod value in it, rows
\* [offset, offset + count) of the sub-table written to filenames[file] are
\* the group's rows of that lod value in some order, each index list being
\* Morton-sorted within its own span, and what later groups append to the
\* unit or to a unit started after a rollover leaves these rows in place.
C26_ManifestEntryDesignatesGroup == []EntryDesignatesGroup /\ [][UnitsOnlyGrow]_vars

\* a group filed at offset 0 of a unit started by a rollover, while the unit
\* before it holds a second list at an offset above 0 and a list the Morton
\* sort reorders
C26_Witness ==
  /\ lastVisit.kind = "leaf"
  /\ lodVariant = "io"
  /\ \E k \in DOMAIN lastVisit.lods :
       /\ filenames[lastVisit.lods[k].file + 1][2] >= 1
       /\ Len(lodFiles[k][1]) >= 2
       /\ \E q \in 1..Len(lodFiles[k][1]) :
            sortMortonOrder(lodColumns, lodFiles[k][1][q]) # lodFiles[k][1][q]

VisitedInterior == lastVisit.node.indices = <<>>
VisitedCount == lastVisit.node.count
VisitedDim == largestDim(lastVisit.node.aabb)

\* C10, as stated: build() recurses into the children only when the node is
\* interior and count > chunkCount*1024 and largestDim > chunkExtent; every
\* other node is emitted as a leaf group.
C10_RecurseOnlyWhenAll ==
  lastVisit.kind # "none" =>
    (lastVisit.kind = "recurse" <=>
       (VisitedInterior /\ VisitedCount > binSize /\ VisitedDim > binDim))

\* C10, amended: build() recurses into the children exactly when the node is
\* interior and count > chunkCount*1024 or largestDim > chunkExtent; every
\* other node is emitted as a leaf group.
C10_RecurseWhenEither ==
  lastVisit.kind # "none" =>
    (lastVisit.kind = "recurse" <=>
       (VisitedInterior /\ (VisitedCount > binSize \/ VisitedDim > binDim)))

C10_Witness ==
  /\ lastVisit.kind = "recurse"
  /\ VisitedInterior
  /\ VisitedCount <= binSize
  /\ VisitedDim > binDim

----------------------------------------------------------------------------
(***************************************************************************)
(* writeLod: the dispatch of the file units (src/src/io/lod_writer.cpp     *)
(* 285-331). splat/utils/threadpool.h is not part of the sources: the pool *)
(* is a queue and workerCount workers that take tasks off it, its poll     *)
(* rethrows a failure a task left, and its destructor waits for the tasks. *)
(***************************************************************************)
MaxUnits == 4
MaxWorkers == 2

Workers == 1..workerCount
Tasks == 1..Len(fileUnits)

\* the objects a task can touch
dataTableObj == <<"dataTable", 0>>
unitObj(t) == <<"this_unit", t>>
indicesObj(t) == <<"indices", t>>
pathObj(t) == <<"this_path", t>>
NoTable == <<"none", 0>>

\* a permutation written over the columns of the table it reads
permuteRowsStorage_InPlace(n) == dataTableObj

\* DataTable::permuteRows (data-table.cpp:212-239): every column of the
\* result is a new vector, the n-th table allocated
permuteRowsStorage(n) == <<"table", n>>

\* a driver that never waits
mustWait_Never(queueSize, workers) == FALSE

\* lod_writer.cpp:305: the driver sleeps while this holds
mustWait(queueSize, workers) == queueSize > workers * 2

PoolStart ==
  /\ workerCount \in 1..MaxWorkers
  /\ fileUnits \in UNION {[1..n -> BOOLEAN] : n \in 1..MaxUnits}
  /\ unitIdx = 1
  /\ driverPc = "poll"
  /\ queue = <<>>
  /\ running = [w \in Workers |-> 0]
  /\ taskPc = [t \in Tasks |-> "none"]
  /\ taskTable = [t \in Tasks |-> NoTable]
  /\ footprint = [t \in Tasks |-> {}]
  /\ allocated = 0
  /\ poolError = FALSE

driverVarsKept == <<workerCount, fileUnits, running, taskPc, taskTable, footprint, allocated,
                    poolError>>

\* line 295: if (fileUnit.empty()) continue
DriverSkipEmpty ==
  /\ driverPc = "poll"
  /\ unitIdx <= Len(fileUnits)
  /\ ~fileUnits[unitIdx]
  /\ unitIdx' = unitIdx + 1
  /\ UNCHANGED <<driverPc, queue, driverVarsKept>>

\* line 305: the poll finds the queue too long; lines 306: sleep
DriverPollWait ==
  /\ driverPc = "poll"
  /\ unitIdx <= Len(fileUnits)
  /\ fileUnits[unitIdx]
  /\ ~poolError
  /\ mustWait(Len(queue), workerCount)
  /\ driverPc' = "sleep"
  /\ UNCHANGED <<unitIdx, queue, driverVarsKept>>

DriverWake ==
  /\ driverPc = "sleep"
  /\ driverPc' = "poll"
  /\ UNCHANGED <<unitIdx, queue, driverVarsKept>>

\* line 305: the poll lets the driver go on
DriverPollGo ==
  /\ driverPc = "poll"
  /\ unitIdx <= Len(fileUnits)
  /\ fileUnits[unitIdx]
  /\ ~poolError
  /\ ~mustWait(Len(queue), workerCount)
  /\ driverPc' = "enqueue"
  /\ UNCHANGED <<unitIdx, queue, driverVarsKept>>

\* the poll rethrows the failure the pool holds; writeLod has no handler
DriverPollError ==
  /\ driverPc = "poll"
  /\ unitIdx <= Len(fileUnits)
  /\ fileUnits[unitIdx]
  /\ poolError
  /\ driverPc' = "aborted"
  /\ UNCHANGED <<unitIdx, queue, driverVarsKept>>

\* lines 309-327: pool.enqueue(task); its result is dropped
DriverEnqueue ==
  /\ driverPc = "enqueue"
  /\ queue' = Append(queue, unitIdx)
  /\ taskPc' = [taskPc EXCEPT ![unitIdx] = "queued"]
  /\ unitIdx' = unitIdx + 1
  /\ driverPc' = "poll"
  /\ UNCHANGED <<workerCount, fileUnits, running, taskTable, footprint, allocated, poolError>>

\* lines 329-331: the loop is over, writeLod leaves its scope
DriverLeave ==
  /\ driverPc = "poll"
  /\ unitIdx > Len(fileUnits)
  /\ driverPc' = "join"
  /\ UNCHANGED <<unitIdx, queue, driverVarsKept>>

\* the pool's destructor returns when the workers have run every task
PoolJoin ==
  /\ driverPc = "join"
  /\ queue = <<>>
  /\ \A w \in Workers : running[w] = 0
  /\ driverPc' = "returned"
  /\ UNCHANGED <<unitIdx, queue, driverVarsKept>>

\* a free worker takes the task at the head of the queue
WorkerTake ==
  \E w \in Workers :
    /\ running[w] = 0
    /\ queue # <<>>
    /\ running' = [running EXCEPT ![w] = Head(queue)]
    /\ queue' = Tail(queue)
    /\ taskPc' = [taskPc EXCEPT ![Head(queue)] = "sort"]
    /\ UNCHANGED <<workerCount, fileUnits, unitIdx, driverPc, taskTable, footprint, allocated,
                   poolError>>

Touch(t, accesses) == [footprint EXCEPT ![t] = footprint[t] \cup accesses]

\* lines 311-321: copy each list of this_unit into indices and sort it
TaskSort ==
  \E w \in Workers :
    LET t == running[w]
    IN /\ t # 0
       /\ taskPc[t] = "sort"
       /\ footprint' = Touch(t, {<<unitObj(t), "r">>, <<indicesObj(t), "w">>,
                                 <<dataTableObj, "r">>})
       /\ taskPc' = [taskPc EXCEPT ![t] = "permute"]
       /\ UNCHANGED <<workerCount, fileUnits, unitIdx, driverPc, queue, running, taskTable,
                      allocated, poolError>>

\* line 323: unitDataTable = dataTable->permuteRows(indices)
TaskPermute ==
  \E w \in Workers :
    LET t == running[w]
        table == permuteRowsStorage(allocated + 1)
    IN /\ t # 0
       /\ taskPc[t] = "permute"
       /\ allocated' = allocated + 1
       /\ taskTable' = [taskTable EXCEPT ![t] = table]
       /\ footprint' = Touch(t, {<<dataTableObj, "r">>, <<indicesObj(t), "r">>, <<table, "w">>})
       /\ taskPc' = [taskPc EXCEPT ![t] = "write"]
       /\ UNCHANGED <<workerCount, fileUnits, unitIdx, driverPc, queue, running, poolError>>

\* lines 325-327: writeSog(this_path, unitDataTable, ...) returns
TaskWriteSog ==
  \E w \in Workers :
    LET t == running[w]
    IN /\ t # 0
       /\ taskPc[t] = "write"
       /\ footprint' = Touch(t, {<<taskTable[t], "r">>, <<pathObj(t), "w">>})
       /\ taskPc' = [taskPc EXCEPT ![t] = "done"]
       /\ running' = [running EXCEPT ![w] = 0]
       /\ UNCHANGED <<workerCount, fileUnits, unitIdx, driverPc, queue, taskTable, allocated,
                      poolError>>

\* lines 325-327: writeSog throws; the pool keeps the failure
TaskWriteSogFails ==
  \E w \in Workers :
    LET t == running[w]
    IN /\ t # 0
       /\ taskPc[t] = "write"
       /\ footprint' = Touch(t, {<<taskTable[t], "r">>, <<pathObj(t), "w">>})
       /\ taskPc' = [taskPc EXCEPT ![t] = "failed"]
       /\ running' = [running EXCEPT ![w] = 0]
       /\ poolError' = TRUE
       /\ UNCHANGED <<workerCount, fileUnits, unitIdx, driverPc, queue, taskTable, allocated>>

PoolInit == PoolStart /\ TableIdle /\ EnvIdle /\ MortonIdle /\ LodIdle /\ CallIdle /\ OctIdle /\ KmIdle

PoolNext ==
  \/ DriverSkipEmpty /\ UNCHANGED <<tableVars, envVars, mortonVars, lodVars, callVars, octVars, kmVars>>
  \/ DriverPollWait /\ UNCHANGED <<tableVars, envVars, mortonVars, lodVars, callVars, octVars, kmVars>>
  \/ DriverWake /\ UNCHANGED <<tableVars, envVars, mortonVars, lodVars, callVars, octVars, kmVars>>
  \/ DriverPollGo /\ UNCHANGED <<tableVars, envVars, mortonVars, lodVars, callVars, octVars, kmVars>>
  \/ DriverPollError /\ UNCHANGED <<tableVars, envVars, mortonVars, lodVars, callVars, octVars, kmVars>>
  \/ DriverEnqueue /\ UNCHANGED <<tableVars, envVars, mortonVars, lodVars, callVars, octVars, kmVars>>
  \/ DriverLeave /\ UNCHANGED <<tableVars, envVars, mortonVars, lodVars, callVars, octVars, kmVars>>
  \/ PoolJoin /\ UNCHANGED <<tableVars, envVars, mortonVars, lodVars, callVars, octVars, kmVars>>
  \/ WorkerTake /\ UNCHANGED <<tableVars, envVars, mortonVars, lodVars, callVars, octVars, kmVars>>
  \/ TaskSort /\ UNCHANGED <<tableVars, envVars, mortonVars, lodVars, callVars, octVars, kmVars>>
  \/ TaskPermute /\ UNCHANGED <<tableVars, envVars, mortonVars, lodVars, callVars, octVars, kmVars>>
  \/ TaskWriteSog /\ UNCHANGED <<tableVars, envVars, mortonVars, lodVars, callVars, octVars, kmVars>>
  \/ TaskWriteSogFails /\ UNCHANGED <<tableVars, envVars, mortonVars, lodVars, callVars, octVars, kmVars>>

SpecPool == PoolInit /\ [][PoolNext]_vars

\* C4, as stated: the number of tasks in the pool's queue never exceeds
\* 2*workerCount.
C4_QueueAtMostTwiceWorkers == Len(queue) <= 2 * workerCount

\* C4, amended: the driver enqueues whenever its poll finds at most
\* 2*workerCount tasks in the queue, so the queue never holds more than
\* 2*workerCount + 1 tasks.
C4_QueueAtMostTwiceWorkersPlusOne == Len(queue) <= 2 * workerCount + 1

C4_Witness ==
  /\ Len(queue) = 2 * workerCount + 1
  /\ driverPc = "sleep"

Running == {t \in Tasks : taskPc[t] \in {"sort", "permute", "write"}}
Objects(t) == {a[1] : a \in footprint[t]}
Written(t) == {a[1] : a \in {b \in footprint[t] : b[2] = "w"}}

C6_FailureAbortsRun ==
  driverPc = "returned" => \A t \in Tasks : taskPc[t] # "failed"

----------------------------------------------------------------------------
(***************************************************************************)
(* DataTable::permuteRows on a table the constructor accepted              *)
(* (src/src/models/data-table.cpp:212-239, src/src/data_table.cpp:172-199) *)
(***************************************************************************)
WellFormedColumnLists == {cols \in ColumnLists : ConstructorChecks(cols) = "ok"}

PermuteStart ==
  /\ callFn = "none"
  /\ callArgs \in [columns : WellFormedColumnLists, indices : IndexLists]
  /\ callResult = NoResult

\* one call of permuteRows: the table it returns, or the exception
CallPermuteRows ==
  /\ callFn = "none"
  /\ callFn' = "permuteRows"
  /\ callResult' =
       IF permuteRowsThrows(callArgs.columns, callArgs.indices)
       THEN [st |-> "error", err |-> "out_of_range"]
       ELSE LET cols == permuteRowsColumns(callArgs.columns, callArgs.indices, 0)
            IN IF ConstructorChecks(cols) = "ok"
               THEN [st |-> "table", columns |-> cols]
               ELSE [st |-> "error", err |-> ConstructorChecks(cols)]
  /\ UNCHANGED callArgs

PermuteInit == PermuteStart /\ TableIdle /\ EnvIdle /\ MortonIdle /\ LodIdle /\ PoolIdle /\ OctIdle /\ KmIdle

PermuteNext ==
  \/ CallPermuteRows /\ UNCHANGED <<tableVars, envVars, mortonVars, lodVars, poolVars, octVars, kmVars>>

SpecPermute == PermuteInit /\ [][PermuteNext]_vars

AllIndicesInRange ==
  \A j \in 1..Len(callArgs.indices) : callArgs.indices[j] < getNumRows(callArgs.columns)

----------------------------------------------------------------------------
(***************************************************************************)
(* buildSparseOctree and flattenTreeFromLevels                             *)
(* (src/src/spatial/sparse_octree.cpp)                                     *)
(***************************************************************************)
\* A node word is <<high byte, low 24 bits>>.
SOLID_LEAF_MARKER == <<255, 0>>

Reverse(seq) == [q \in 1..Len(seq) |-> seq[Len(seq) + 1 - q]]

\* lines 250-267: the blocks before the sort, mixed blocks first
blockEntries(acc) ==
  [q \in 1..Len(acc.mixedMorton) |->
     [morton |-> acc.mixedMorton[q], type |-> "mixed", maskIndex |-> q - 1, childMask |-> 0]]
  \o [q \in 1..Len(acc.solidMorton) |->
     [morton |-> acc.solidMorton[q], type |-> "solid", maskIndex |-> 0 - 1, childMask |-> 0]]

RECURSIVE insertByMorton(_, _)
insertByMorton(sorted, e) ==
  IF sorted = <<>> THEN <<e>>
  ELSE IF e.morton < Head(sorted).morton THEN <<e>> \o sorted
       ELSE <<Head(sorted)>> \o insertByMorton(Tail(sorted), e)

RECURSIVE ascendingByMorton(_)
ascendingByMorton(entries) ==
  IF entries = <<>> THEN <<>>
  ELSE insertByMorton(ascendingByMorton(Tail(entries)), Head(entries))

\* line 271: std::sort with the comparator mortons[a] - mortons[b], which is
\* true for any two different codes. It is no strict weak ordering unless all
\* codes are equal, so the order std::sort leaves is not defined: the model
\* takes the ascending order, the order the blocks came in, and its reverse
\* (what an insertion sort that trusts the comparator produces).
sortOutcomesByDifference(entries) ==
  IF \A a, b \in 1..Len(entries) : entries[a].morton = entries[b].morton
  THEN {entries}
  ELSE {ascendingByMorton(entries), entries, Reverse(entries)}

\* line 333: the end of the run of entries under parentMorton
RECURSIVE siblingsEnd(_, _, _)
siblingsEnd(cur, i, parentMorton) ==
  IF i <= Len(cur) /\ cur[i].morton \div 8 = parentMorton
  THEN siblingsEnd(cur, i + 1, parentMorton) ELSE i

maskOf(octants) ==
  LET RECURSIVE Sum(_)
      Sum(S) == IF S = {} THEN 0
                ELSE LET o == CHOOSE x \in S : TRUE IN Pow2(o) + Sum(S \ {o})
  IN Sum(octants)

popcount(mask) == Cardinality({o \in 0..7 : Bit(mask, o) = 1})

\* lines 319-356: the level above cur, by a linear scan
RECURSIVE nextLevel(_, _)
nextLevel(cur, i) ==
  IF i > Len(cur) THEN <<>>
  ELSE LET parentMorton == cur[i].morton \div 8
           end == siblingsEnd(cur, i, parentMorton)
           childMask == maskOf({cur[q].morton % 8 : q \in i..(end - 1)})
           allSolid == \A q \in i..(end - 1) : cur[q].type = "solid"
           childCount == end - i
           parent == IF allSolid /\ childCount = 8
                     THEN [morton |-> parentMorton, type |-> "solid",
                           maskIndex |-> 0 - 1, childMask |-> 0]
                     ELSE [morton |-> parentMorton, type |-> "mixed",
                           maskIndex |-> 0 - 1, childMask |-> childMask]
       IN <<parent>> \o nextLevel(cur, end)

\* lines 197-205: the binary search for the first child code >= childMortonBase
RECURSIVE lowerBound(_, _, _, _)
lowerBound(childMortons, lo, hi, childMortonBase) ==
  IF lo < hi
  THEN LET mid == (lo + hi) \div 2
       IN IF childMortons[mid + 1] < childMortonBase
          THEN lowerBound(childMortons, mid + 1, hi, childMortonBase)
          ELSE lowerBound(childMortons, lo, mid, childMortonBase)
  ELSE lo

\* lines 208-212: the children collected from position lo on
RECURSIVE collectChildren(_, _, _, _)
collectChildren(childMortons, lo, childMortonEnd, childLi) ==
  IF lo < Len(childMortons) /\ childMortons[lo + 1] < childMortonEnd
  THEN <<[li |-> childLi, ii |-> lo]>>
       \o collectChildren(childMortons, lo + 1, childMortonEnd, childLi)
  ELSE <<>>

\* lines 139-172: emit the nodes of one wave; li and ii count from 0
RECURSIVE emitWave(_, _, _, _, _)
emitWave(st, levels, mixedMasks, wave, w) ==
  IF w > Len(wave) THEN st
  ELSE LET li == wave[w].li
           ii == wave[w].ii
           e == levels[li + 1][ii + 1]
           isLeaf == e.type = "solid" \/ li = 0
           leafDataIndex == Len(st.leafData) \div 2
           word == IF ~isLeaf THEN <<0, 0>>
                   ELSE IF e.type = "solid" THEN SOLID_LEAF_MARKER
                   ELSE <<0, leafDataIndex>>
           mixedLeaf == isLeaf /\ e.type # "solid"
       IN emitWave([nodes |-> Append(st.nodes, word),
                    emitted |-> Append(st.emitted, [li |-> li, ii |-> ii, morton |-> e.morton,
                                                    interior |-> ~isLeaf]),
                    leafData |-> IF mixedLeaf
                                 THEN st.leafData \o <<mixedMasks[e.maskIndex * 2 + 1],
                                                       mixedMasks[e.maskIndex * 2 + 2]>>
                                 ELSE st.leafData,
                    numMixedLeaves |-> st.numMixedLeaves + (IF mixedLeaf THEN 1 ELSE 0),
                    numInteriorNodes |-> st.numInteriorNodes + (IF isLeaf THEN 0 ELSE 1),
                    interiors |-> IF isLeaf THEN st.interiors
                                  ELSE Append(st.interiors,
                                              [pos |-> Len(st.nodes), li |-> li, ii |-> ii,
                                               mask |-> e.childMask])],
                   levels, mixedMasks, wave, w + 1)

\* lines 176-215: backfill the interior nodes of the wave, collect the next wave
RECURSIVE backfill(_, _, _, _, _, _)
backfill(nodes, levels, interiors, j, nextChildStart, nextWave) ==
  IF j > Len(interiors) THEN [nodes |-> nodes, nextWave |-> nextWave]
  ELSE LET int == interiors[j]
           childLi == int.li - 1
           childMortons == [q \in 1..Len(levels[childLi + 1]) |-> levels[childLi + 1][q].morton]
           childMortonBase == levels[int.li + 1][int.ii + 1].morton * 8
           lo == lowerBound(childMortons, 0, Len(childMortons), childMortonBase)
       IN backfill([nodes EXCEPT ![int.pos + 1] = <<int.mask, nextChildStart>>],
                   levels, interiors, j + 1, nextChildStart + popcount(int.mask),
                   nextWave \o collectChildren(childMortons, lo, childMortonBase + 8, childLi))

\* lines 131-219: the loop over the waves
RECURSIVE flattenWaves(_, _, _, _)
flattenWaves(st, levels, mixedMasks, wave) ==
  IF wave = <<>> THEN st
  ELSE LET emitted == emitWave([st EXCEPT !.interiors = <<>>], levels, mixedMasks, wave, 1)
           filled == backfill(emitted.nodes, levels, emitted.interiors, 1,
                              Len(emitted.nodes), <<>>)
       IN flattenWaves([emitted EXCEPT !.nodes = filled.nodes], levels, mixedMasks,
                       filled.nextWave)

\* flattenTreeFromLevels (lines 84-237). nodes is allocated with maxNodes
\* words and returned whole (line 229); a write at emitPos >= maxNodes is
\* past its end.
flattenTreeFromLevels(levels, mixedMasks) ==
  LET rootLevel == levels[Len(levels)]
      maxNodes == SumSeq([q \in 1..Len(levels) |-> Len(levels[q])])
      st == flattenWaves([nodes |-> <<>>, emitted |-> <<>>, leafData |-> <<>>,
                          numMixedLeaves |-> 0, numInteriorNodes |-> 0, interiors |-> <<>>],
                         levels, mixedMasks,
                         [q \in 1..Len(rootLevel) |-> [li |-> Len(levels) - 1, ii |-> q - 1]])
  IN IF rootLevel = <<>>
     THEN [st |-> "octree", nodes |-> <<>>, emitted |-> <<>>, leafData |-> <<>>,
           numInteriorNodes |-> 0, numMixedLeaves |-> 0]
     ELSE IF Len(st.nodes) > maxNodes
          THEN [st |-> "out_of_bounds", emitted |-> st.emitted]
          ELSE [st |-> "octree",
                nodes |-> st.nodes \o [q \in 1..(maxNodes - Len(st.nodes)) |-> <<0, 0>>],
                emitted |-> st.emitted, leafData |-> st.leafData,
                numInteriorNodes |-> st.numInteriorNodes,
                numMixedLeaves |-> st.numMixedLeaves]

\* Block codes of a grid of up to 4 blocks a side: octants 0..7 under parent
\* 0, and code 8 under parent 1.
MaxOctBlocks == 2
MaxTreeDepth == 2

DistinctSeqs(S, maxLen) ==
  UNION {{q \in [1..len -> S] : \A a, b \in 1..len : a # b => q[a] # q[b]} : len \in 0..maxLen}

MixedMortonLists == DistinctSeqs({0, 1, 8}, MaxOctBlocks)

SolidMortonLists ==
  DistinctSeqs({0, 1, 2, 8}, MaxOctBlocks)
  \cup {<<0, 1, 2, 3, 4, 5, 6, 7>>, <<7, 3, 5, 1, 6, 2, 4, 0>>,
        <<0, 1, 2, 3, 8, 4, 5, 6, 7>>, <<8, 0, 1, 2, 3, 4, 5, 6, 7>>}

\* BlockAccumulator (sparse_octree.h): a block is added once, either as a
\* mixed block with its two mask words or as a solid block.
BlockAccumulators ==
  {[mixedMorton |-> mm, mixedMasks |-> [q \in 1..(2 * Len(mm)) |-> q], solidMorton |-> sm] :
     <<mm, sm>> \in {pr \in MixedMortonLists \X SolidMortonLists :
                       Range(pr[1]) \cap Range(pr[2]) = {}}}

OctStart ==
  /\ octAcc \in BlockAccumulators
  /\ octDepth \in 1..MaxTreeDepth
  /\ (\E m \in Range(octAcc.mixedMorton) \cup Range(octAcc.solidMorton) : m >= 8)
       => octDepth = MaxTreeDepth
  /\ octPc = "sort"
  /\ octLevel = 0
  /\ octCur = <<>>
  /\ octLevels = <<>>
  /\ octResult = NoResult

\* lines 243-306: gather the blocks and sort them by Morton code
OctSort ==
  /\ octPc = "sort"
  /\ octCur' \in sortOutcomesByDifference(blockEntries(octAcc))
  /\ octPc' = "levels"
  /\ UNCHANGED <<octAcc, octDepth, octLevel, octLevels, octResult>>

\* lines 312-370: one iteration of the loop over the levels
OctBuildLevel ==
  /\ octPc = "levels"
  /\ octLevel < octDepth
  /\ octLevels' = Append(octLevels, octCur)
  /\ octCur' = nextLevel(octCur, 1)
  /\ IF Len(octCur') = 0 \/ (Len(octCur') = 1 /\ octCur'[1].morton = 0)
     THEN octPc' = "flatten" /\ octLevel' = octLevel
     ELSE /\ octLevel' = octLevel + 1
          /\ octPc' = IF octLevel + 1 < octDepth THEN "levels" ELSE "flatten"
  /\ UNCHANGED <<octAcc, octDepth, octResult>>

\* lines 373-385: save the root level and flatten
OctFlatten ==
  /\ octPc = "flatten"
  /\ octLevels' = Append(octLevels, octCur)
  /\ octResult' = flattenTreeFromLevels(octLevels', octAcc.mixedMasks)
  /\ octPc' = "done"
  /\ UNCHANGED <<octAcc, octDepth, octLevel, octCur>>

OctInit ==
  OctStart /\ TableIdle /\ EnvIdle /\ MortonIdle /\ LodIdle /\ PoolIdle /\ CallIdle /\ KmIdle

OctNext ==
  \/ OctSort /\ UNCHANGED <<tableVars, envVars, mortonVars, lodVars, poolVars, callVars, kmVars>>
  \/ OctBuildLevel /\ UNCHANGED <<tableVars, envVars, mortonVars, lodVars, poolVars, callVars, kmVars>>
  \/ OctFlatten /\ UNCHANGED <<tableVars, envVars, mortonVars, lodVars, poolVars, callVars, kmVars>>

SpecOctree == OctInit /\ [][OctNext]_vars

\* The entries of the 0-based level li whose parent code is parentMorton.
ChildrenUnder(li, parentMorton) ==
  {q \in 1..Len(octLevels[li + 1]) : octLevels[li + 1][q].morton \div 8 = parentMorton}

\* C12: in the flattened node array every interior node with child mask m and
\* stored base offset b has its children at exactly the positions
\* b .. b + popcount(m) - 1, in ascending octant order, one per bit of m,
\* whatever the accumulator held.
C12_ChildrenContiguousAscending ==
  octPc = "done" =>
    /\ octResult.st = "octree"
    /\ \A p \in 1..Len(octResult.emitted) :
         octResult.emitted[p].interior =>
           LET node == octResult.emitted[p]
               m == octResult.nodes[p][1]
               b == octResult.nodes[p][2]
               k == popcount(m)
           IN /\ b + k <= Len(octResult.emitted)
              /\ \A c \in 1..k :
                   LET child == octResult.emitted[b + c]
                   IN /\ child.li = node.li - 1
                      /\ child.morton \div 8 = node.morton
                      /\ Bit(m, child.morton % 8) = 1
                      /\ c > 1 => octResult.emitted[b + c - 1].morton < child.morton
              /\ Cardinality(ChildrenUnder(node.li - 1, node.morton)) = k

\* C13: at every level a parent whose eight children are all solid is emitted
\* as one solid leaf, and none of its children is emitted.
C13_SolidCollapse ==
  octPc = "done" =>
    \A L \in 1..(Len(octLevels) - 1) :
      \A P \in {octLevels[L][q].morton \div 8 : q \in 1..Len(octLevels[L])} :
        LET children == ChildrenUnder(L - 1, P)
        IN (/\ {octLevels[L][q].morton % 8 : q \in children} = 0..7
            /\ \A q \in children : octLevels[L][q].type = "solid")
           => /\ octResult.st = "octree"
              /\ \E p \in 1..Len(octResult.emitted) :
                   /\ octResult.emitted[p].li = L
                   /\ octResult.emitted[p].morton = P
                   /\ octResult.nodes[p] = SOLID_LEAF_MARKER
              /\ \A p \in 1..Len(octResult.emitted) :
                   /\ (octResult.emitted[p].li = L /\ octResult.emitted[p].morton = P)
                        => octResult.nodes[p] = SOLID_LEAF_MARKER
                   /\ ~(octResult.emitted[p].li = L - 1
                        /\ octResult.emitted[p].morton \div 8 = P)

----------------------------------------------------------------------------
(***************************************************************************)
(* GaussianBVH (src/src/spatial/gaussian_bvh.cpp)                          *)
(***************************************************************************)
\* The code makes a leaf of at most 64 splats (gaussian_bvh.h:84); the model
\* keeps the comparison on tables TLC can enumerate.
MaxSplats == 3
MAX_LEAF_SIZE == 1

\* std::numeric_limits<float>::infinity(): above every coordinate of the model
Infinity == 1000

\* a splat: centre p and extent e, both per axis
SplatSet ==
  {[p |-> <<0, 0, 0>>, e |-> <<0, 0, 0>>], [p |-> <<0, 0, 0>>, e |-> <<1, 1, 1>>],
   [p |-> <<4, 0, 0>>, e |-> <<1, 0, 0>>], [p |-> <<0, 4, 0>>, e |-> <<0, 2, 0>>],
   [p |-> <<2, 2, 2>>, e |-> <<3, 3, 3>>]}

\* query boxes [min, max]
QueryBoxes ==
  {[min |-> <<0, 0, 0>>, max |-> <<0, 0, 0>>], [min |-> <<1, 1, 1>>, max |-> <<2, 2, 2>>],
   [min |-> <<3, 0, 0>>, max |-> <<5, 0, 0>>], [min |-> <<0, 2, 0>>, max |-> <<0, 3, 0>>],
   [min |-> <<6, 6, 6>>, max |-> <<7, 7, 7>>]}

gMin(splats, idx, c) == splats[idx + 1].p[c] - splats[idx + 1].e[c]
gMax(splats, idx, c) == splats[idx + 1].p[c] + splats[idx + 1].e[c]

RECURSIVE foldMin(_, _)
foldMin(vals, acc) ==
  IF vals = <<>> THEN acc
  ELSE foldMin(Tail(vals), IF Head(vals) < acc THEN Head(vals) ELSE acc)

RECURSIVE foldMax(_, _)
foldMax(vals, acc) ==
  IF vals = <<>> THEN acc
  ELSE foldMax(Tail(vals), IF Head(vals) > acc THEN Head(vals) ELSE acc)

\* a bound over the centres only
computeBound_CentresOnly(splats, indices) ==
  [min |-> [c \in 1..3 |->
              foldMin([q \in 1..Len(indices) |-> splats[indices[q] + 1].p[c]], Infinity)],
   max |-> [c \in 1..3 |->
              foldMax([q \in 1..Len(indices) |-> splats[indices[q] + 1].p[c]], 0 - Infinity)]]

\* GaussianBVH::computeBound (lines 72-98)
computeBound(splats, indices) ==
  [min |-> [c \in 1..3 |->
              foldMin([q \in 1..Len(indices) |-> gMin(splats, indices[q], c)], Infinity)],
   max |-> [c \in 1..3 |->
              foldMax([q \in 1..Len(indices) |-> gMax(splats, indices[q], c)], 0 - Infinity)]]

\* lines 108-140: the axis of the largest extent of the centres
splitAxis(splats, indices) ==
  LET ext(c) == foldMax([q \in 1..Len(indices) |-> splats[indices[q] + 1].p[c]], 0 - Infinity)
                - foldMin([q \in 1..Len(indices) |-> splats[indices[q] + 1].p[c]], Infinity)
  IN IF ext(1) >= ext(2) /\ ext(1) >= ext(3) THEN 1
     ELSE IF ext(2) >= ext(3) THEN 2 ELSE 3

\* GaussianBVH::buildNode (lines 100-159)
RECURSIVE buildNode(_, _)
buildNode(splats, indices) ==
  LET bounds == computeBound(splats, indices)
  IN IF Len(indices) <= MAX_LEAF_SIZE
     THEN [null |-> FALSE, count |-> Len(indices), bounds |-> bounds, indices |-> indices,
           left |-> NullNode, right |-> NullNode]
     ELSE LET axis == splitAxis(splats, indices)
              values == [q \in 1..Len(splats) |-> splats[q].p[axis]]
              mid == Len(indices) \div 2
              parted == quickselect(values, indices, mid, 0, Len(indices) - 1)
              left == buildNode(splats, SubSeq(parted, 1, mid))
              right == buildNode(splats, SubSeq(parted, mid + 1, Len(parted)))
          IN [null |-> FALSE, count |-> left.count + right.count, bounds |-> bounds,
              indices |-> <<>>, left |-> left, right |-> right]

\* lines 163-167 and 185: two boxes overlap unless they are apart on some axis
boundsOverlap(aMin, aMax, bMin, bMax) ==
  ~(\E c \in 1..3 : aMax[c] < bMin[c] \/ aMin[c] > bMax[c])

\* GaussianBVH::queryNode (lines 161-200): the indices appended to the result
RECURSIVE queryNode(_, _, _)
queryNode(splats, node, box) ==
  IF ~boundsOverlap(node.bounds.min, node.bounds.max, box.min, box.max) THEN <<>>
  ELSE IF node.indices # <<>>
       THEN SelectSeq(node.indices,
                      LAMBDA idx : boundsOverlap([c \in 1..3 |-> gMin(splats, idx, c)],
                                                 [c \in 1..3 |-> gMax(splats, idx, c)],
                                                 box.min, box.max))
       ELSE (IF node.left.null THEN <<>> ELSE queryNode(splats, node.left, box))
            \o (IF node.right.null THEN <<>> ELSE queryNode(splats, node.right, box))

\* GaussianBVH::GaussianBVH (lines 45-61): the root over the rows 0..numRows-1
GaussianBVH(splats) == buildNode(splats, [q \in 1..Len(splats) |-> q - 1])

BvhStart ==
  /\ callFn = "none"
  /\ callArgs \in [splats : SeqsUpTo(SplatSet, MaxSplats), box : QueryBoxes]
  /\ callResult = NoResult

\* GaussianBVH::queryOverlapping (lines 63-69) on a tree just built
CallQueryOverlapping ==
  /\ callFn = "none"
  /\ callFn' = "queryOverlapping"
  /\ callResult' = [st |-> "indices",
                    result |-> queryNode(callArgs.splats, GaussianBVH(callArgs.splats),
                                         callArgs.box)]
  /\ UNCHANGED callArgs

BvhInit == BvhStart /\ TableIdle /\ EnvIdle /\ MortonIdle /\ LodIdle /\ PoolIdle /\ OctIdle /\ KmIdle

BvhNext ==
  \/ CallQueryOverlapping /\ UNCHANGED <<tableVars, envVars, mortonVars, lodVars, poolVars, octVars, kmVars>>

SpecBvh == BvhInit /\ [][BvhNext]_vars

\* The splat's box, centre +/- extent, overlaps the query box.
SplatOverlaps(idx) ==
  \A c \in 1..3 : /\ gMax(callArgs.splats, idx, c) >= callArgs.box.min[c]
                  /\ gMin(callArgs.splats, idx, c) <= callArgs.box.max[c]

\* C14: queryOverlapping(B) returns every splat whose box, position +/-
\* extent, overlaps B; pruning a subtree by its node bounds drops none.
C14_QueryReturnsEveryOverlap ==
  callFn = "queryOverlapping" =>
    \A idx \in 0..(Len(callArgs.splats) - 1) :
      SplatOverlaps(idx) => idx \in Range(callResult.result)

\* an interior root with a pruned left child, and a splat found on the right
\* whose centre is outside the query box
C14_Witness ==
  /\ callFn = "queryOverlapping"
  /\ Len(callArgs.splats) = MaxSplats
  /\ LET root == GaussianBVH(callArgs.splats)
     IN /\ ~boundsOverlap(root.left.bounds.min, root.left.bounds.max,
                          callArgs.box.min, callArgs.box.max)
        /\ root.indices = <<>> /\ ~root.right.null
  /\ \E idx \in Range(callResult.result) :
       ~boundsOverlap(callArgs.splats[idx + 1].p, callArgs.splats[idx + 1].p,
                      callArgs.box.min, callArgs.box.max)

----------------------------------------------------------------------------
(***************************************************************************)
(* cluster1d (src/src/writers/sog_writer.cpp) and kmeans                   *)
(* (src/src/maths/kmeans.cpp)                                              *)
(***************************************************************************)
\* cluster1d asks for 256 centroids (sog_writer.cpp:106); the model runs the
\* same code with the cluster counts below on tables TLC can enumerate.
MaxKmRows == 3
MaxKmCells == 4
MaxIterations == 2
KmValues == {0, 2, 4}
KmClusterCounts == {2, 3, 4}

\* tables of one or two float columns of equal length
KmTables ==
  UNION {[1..s[1] -> [1..s[2] -> KmValues]] :
           s \in {t \in (1..2) \X (0..MaxKmRows) : t[1] * t[2] <= MaxKmCells}}

\* sog_writer.cpp:97-101: all rows of column 0, then all rows of column 1, ...
RECURSIVE flattenColumns(_)
flattenColumns(columns) ==
  IF columns = <<>> THEN <<>> ELSE Head(columns) \o flattenColumns(Tail(columns))

\* initializeCentroids1D (kmeans.cpp:53-68)
initializeCentroids1D(data, k) ==
  LET m == foldMin(data, Infinity)
      n == foldMax(data, 0 - Infinity)
  IN [i \in 1..k |-> m + ((n - m) * (i - 1)) \div (k - 1)]

\* groupLabels (kmeans.cpp:97-103): the rows of each cluster
groupLabels(labels, k) ==
  [g \in 1..k |-> SelectSeq([q \in 1..Len(labels) |-> q - 1],
                            LAMBDA r : labels[r + 1] = g - 1)]

\* calcAverage (kmeans.cpp:70-93) on a one-column table. Line 83 takes the
\* key keys[i] with i the position in the cluster, not the column j: for a
\* cluster of one row the result is that row's value; for a larger cluster
\* keys[i] is read past the end of keys, and the call may store any value or
\* end the process. An outcome is <<v>> for a stored value, <<>> for the end
\* of the process.
calcAverageOutcomes(data, cluster) ==
  IF Len(cluster) = 1 THEN {<<data[cluster[1] + 1]>>}
  ELSE {<<v>> : v \in KmValues} \cup {<<>>}

\* kmeans.cpp:139-150: the centroid tables one pass over the clusters can
\* leave, <<>> when the process ended; an empty cluster is reseeded to a
\* random row
RECURSIVE newCentroids(_, _, _, _)
newCentroids(data, groups, centroids, i) ==
  IF i > Len(centroids) THEN {centroids}
  ELSE LET outcomes == IF groups[i] = <<>> THEN {<<v>> : v \in Range(data)}
                       ELSE calcAverageOutcomes(data, groups[i])
       IN UNION {IF o = <<>> THEN {<<>>}
                 ELSE newCentroids(data, groups, [centroids EXCEPT ![i] = o[1]], i + 1) :
                 o \in outcomes}

IsPermutation(order) == Range(order) = 0..(Len(order) - 1)

\* sog_writer.cpp:110-112: the orders std::sort can leave, ties in any order
sortedOrders(centroidsData) ==
  {order \in [1..Len(centroidsData) -> 0..(Len(centroidsData) - 1)] :
     /\ IsPermutation(order)
     /\ \A a, b \in 1..Len(order) :
          a < b => ~(centroidsData[order[b] + 1] < centroidsData[order[a] + 1])}

\* sog_writer.cpp:115-118: tmp is a copy of the span centroidsData, not of
\* the floats it views, so tmp[order[i]] reads the array being written
RECURSIVE reorderCentroids(_, _, _)
reorderCentroids(centroidsData, order, i) ==
  IF i > Len(order) THEN centroidsData
  ELSE reorderCentroids([centroidsData EXCEPT ![i] = centroidsData[order[i] + 1]], order, i + 1)

\* sog_writer.cpp:120-123
invOrder(order) ==
  [q \in 1..Len(order) |-> (CHOOSE i \in 1..Len(order) : order[i] = q - 1) - 1]

ClusterStart ==
  /\ kmTable \in KmTables
  /\ kmK \in KmClusterCounts
  /\ kmIterations \in 0..MaxIterations
  /\ kmPc = "start"
  /\ kmSteps = 0
  /\ kmCentroids = <<>>
  /\ kmLabels = <<>>

\* cluster1d up to its call of kmeans (sog_writer.cpp:91-106) and kmeans up
\* to its loop (kmeans.cpp:105-138)
KmeansEnter ==
  /\ kmPc = "start"
  /\ LET data == flattenColumns(kmTable)
     IN IF Len(data) < kmK
        THEN /\ kmCentroids' = data
             /\ kmLabels' = [q \in 1..Len(data) |-> q - 1]
             /\ kmPc' = "returned"
        ELSE /\ kmCentroids' = initializeCentroids1D(data, kmK)
             /\ kmLabels' = [q \in 1..Len(data) |-> 0]
             /\ kmPc' = "loop"
  /\ UNCHANGED <<kmTable, kmK, kmIterations, kmSteps>>

\* one pass of the loop of kmeans (kmeans.cpp:139-161); clusterKdTreeCpu
\* (line 95) has an empty body and leaves labels as they are
KmeansIterate ==
  /\ kmPc = "loop"
  /\ \E c \in newCentroids(flattenColumns(kmTable), groupLabels(kmLabels, kmK), kmCentroids, 1) :
       IF c = <<>>
       THEN kmPc' = "crashed" /\ UNCHANGED <<kmCentroids, kmSteps>>
       ELSE /\ kmCentroids' = c
            /\ kmSteps' = kmSteps + 1
            /\ kmPc' = IF kmSteps' >= kmIterations THEN "returned" ELSE "loop"
  /\ UNCHANGED <<kmTable, kmK, kmIterations, kmLabels>>

\* cluster1d after kmeans has returned (sog_writer.cpp:108-139): sort the
\* centroids, remap the labels, one u8 label column per input column
Cluster1dReorder ==
  /\ kmPc = "returned"
  /\ \E order \in sortedOrders(kmCentroids) :
       LET labels == [q \in 1..Len(kmLabels) |-> invOrder(order)[kmLabels[q] + 1]]
           numRows == Len(kmTable[1])
       IN /\ kmCentroids' = reorderCentroids(kmCentroids, order, 1)
          /\ kmLabels' = [i \in 1..Len(kmTable) |->
                            [j \in 1..numRows |-> labels[(i - 1) * numRows + j] % 256]]
  /\ kmPc' = "done"
  /\ UNCHANGED <<kmTable, kmK, kmIterations, kmSteps>>

ClusterInit ==
  ClusterStart /\ TableIdle /\ EnvIdle /\ MortonIdle /\ LodIdle /\ PoolIdle /\ CallIdle /\ OctIdle

ClusterNext ==
  \/ KmeansEnter /\ UNCHANGED <<tableVars, envVars, mortonVars, lodVars, poolVars, callVars, octVars>>
  \/ KmeansIterate /\ UNCHANGED <<tableVars, envVars, mortonVars, lodVars, poolVars, callVars, octVars>>
  \/ Cluster1dReorder /\ UNCHANGED <<tableVars, envVars, mortonVars, lodVars, poolVars, callVars, octVars>>

SpecCluster == ClusterInit /\ [][ClusterNext]_vars

\* C15: after cluster1d has sorted the centroids, the centroid array is
\* non-decreasing, whatever centroids k-means produced.
C15_CodebookSorted ==
  kmPc = "done" =>
    \A i \in 1..(Len(kmCentroids) - 1) : kmCentroids[i] <= kmCentroids[i + 1]

\* C16: on a table of at least k rows kmeans makes exactly `iterations`
\* passes of its loop before it returns, for every iterations >= 0.
C16_ExactlyIterationsPasses ==
  (kmPc \in {"returned", "done"} /\ Len(flattenColumns(kmTable)) >= kmK)
    => kmSteps = kmIterations

----------------------------------------------------------------------------
(***************************************************************************)
(* The drivers' overwrite check (src/app/main.cpp, src/transform/main.cpp) *)
(* and the paths the writers touch                                         *)
(***************************************************************************)
\* The paths of one run, by role: the output file, the siblings of an
\* unbundled HTML output, and what the LOD and unbundled SOG writers put
\* next to the output file.
TargetPaths == {"output", "index.css", "index.js", "base.sog", "env", "unit", "texture"}

\* getOutputFormat (app/main.cpp:256-277, transform/writer.cpp:11-31)
OutputFormats(drv) ==
  IF drv = "app" THEN {"csv", "lod", "sog", "compressed-ply", "ply", "html"}
  ELSE {"csv", "lod", "sog-bundle", "sog", "compressed-ply", "ply"}

\* app/main.cpp:362-367: the siblings the app checks for an unbundled HTML output
filesToCheck == {"index.css", "index.js", "base.sog"}

\* The paths a run with these arguments writes: the output file; for an
\* unbundled HTML output its siblings; for lod the environment SOG
\* (lod_writer.cpp:158-167) and the file units (lod_writer.cpp:293-327); for
\* an unbundled SOG the textures next to meta.json (sog_writer.cpp:159-168).
targetsOf(args) ==
  {"output"}
  \cup (IF args.outputFormat = "html" /\ args.unbundled THEN filesToCheck ELSE {})
  \cup (IF args.outputFormat = "lod" THEN {"unit"} ELSE {})
  \cup (IF args.outputFormat = "lod" /\ args.hasEnv THEN {"env"} ELSE {})
  \cup (IF args.outputFormat = "sog" /\ args.drv = "transform" THEN {"texture"} ELSE {})

\* app/main.cpp:354-373 and transform/main.cpp:218-223: the run ends with
\* exit code 1 at the check
mustExit(args) ==
  /\ ~args.overwrite
  /\ \/ "output" \in args.exists
     \/ /\ args.drv = "app" /\ args.outputFormat = "html" /\ args.unbundled
        /\ filesToCheck \cap args.exists # {}

\* the directories and files writeFile creates: nothing in the app, whose
\* writeFile has an empty body (app/main.cpp:284-285); in transform the
\* writer of the format (transform/writer.cpp:33-73)
createdByWriteFile(args) ==
  IF args.drv = "app" THEN {}
  ELSE IF args.outputFormat = "lod"
       THEN {"outputDir"} \cup (IF args.hasEnv THEN {"envDir"} ELSE {})
       ELSE {}

writtenByWriteFile(args) ==
  IF args.drv = "app" THEN {} ELSE targetsOf(args)

RunArgs ==
  {a \in [drv : {"app", "transform"}, overwrite : BOOLEAN, outputFormat : OutputFormats("app")
            \cup OutputFormats("transform"), unbundled : BOOLEAN, hasEnv : BOOLEAN,
          exists : SUBSET TargetPaths] :
     a.outputFormat \in OutputFormats(a.drv)}

RunStart ==
  /\ callFn = "none"
  /\ callArgs \in RunArgs
  /\ callResult = NoResult

\* main up to the try block (app/main.cpp:340-373, transform/main.cpp:205-223)
MainCheckOverwrite ==
  /\ callFn = "none"
  /\ callFn' = "checked"
  /\ callResult' = [st |-> "run",
                    status |-> IF mustExit(callArgs) THEN "exit1" ELSE "running",
                    created |-> IF callArgs.overwrite THEN {"outputDir"} ELSE {},
                    written |-> {}]
  /\ UNCHANGED callArgs

\* main's try block when reading or processing the inputs throws
\* (app/main.cpp:375-425, transform/main.cpp:225-276)
MainInputError ==
  /\ callFn = "checked" /\ callResult.status = "running"
  /\ callFn' = "done"
  /\ callResult' = [callResult EXCEPT !.status = "exit1"]
  /\ UNCHANGED callArgs

\* main's try block through writeFile (app/main.cpp:420, transform/main.cpp:271)
MainWriteFile ==
  /\ callFn = "checked" /\ callResult.status = "running"
  /\ callFn' = "done"
  /\ callResult' = [st |-> "run", status |-> "exit0",
                    created |-> callResult.created \cup createdByWriteFile(callArgs),
                    written |-> writtenByWriteFile(callArgs)]
  /\ UNCHANGED callArgs

RunInit == RunStart /\ TableIdle /\ EnvIdle /\ MortonIdle /\ LodIdle /\ PoolIdle /\ OctIdle /\ KmIdle

RunNext ==
  \/ MainCheckOverwrite /\ UNCHANGED <<tableVars, envVars, mortonVars, lodVars, poolVars, octVars, kmVars>>
  \/ MainInputError /\ UNCHANGED <<tableVars, envVars, mortonVars, lodVars, poolVars, octVars, kmVars>>
  \/ MainWriteFile /\ UNCHANGED <<tableVars, envVars, mortonVars, lodVars, poolVars, octVars, kmVars>>

SpecRun == RunInit /\ [][RunNext]_vars

\* C17: without --overwrite, if any target path of the run exists, the run
\* ends with exit code 1 at the check, before any output file or directory
\* is created or written.
C17_ExistingTargetFailsBeforeWrite ==
  (/\ callFn # "none"
   /\ ~callArgs.overwrite
   /\ targetsOf(callArgs) \cap callArgs.exists # {})
  => (/\ callResult.status = "exit1"
      /\ callFn = "checked"
      /\ callResult.created = {}
      /\ callResult.written = {})

----------------------------------------------------------------------------
(***************************************************************************)
(* isGSDataTable and the drivers' test of an input table                   *)
(* (src/app/main.cpp, src/transform/main.cpp)                              *)
(***************************************************************************)
\* the columns of a splat scene
SplatColumns ==
  <<"x", "y", "z", "rot_0", "rot_1", "rot_2", "rot_3", "scale_0", "scale_1", "scale_2",
    "f_dc_0", "f_dc_1", "f_dc_2", "opacity">>

\* app/main.cpp:288-290: the fourth entry of the list is one string
rotString == "rot_0', 'rot_1', 'rot_2', 'rot_3"

\* required_columns of isGSDataTable (app/main.cpp:288-290,
\* transform/main.cpp:134-136)
required_columns(drv) ==
  IF drv = "app"
  THEN <<"x", "y", "z", rotString, "scale_0", "scale_1", "scale_2",
         "f_dc_0", "f_dc_1", "f_dc_2", "opacity">>
  ELSE SplatColumns

Without(names, dropped) == SelectSeq(names, LAMBDA c : c \notin dropped)

\* the column names of the input tables
SchemaNameLists ==
  {SplatColumns, <<"x", "y", "z">>, Without(SplatColumns, {"opacity"}),
   Without(SplatColumns, {"rot_1"}), Append(SplatColumns, rotString),
   Append(Without(SplatColumns, {"rot_0", "rot_1", "rot_2", "rot_3"}), rotString),
   Append(SplatColumns, "f_rest_0")}

ColumnTypes == {"f32", "u8", "f64"}

\* an input table: its columns, all f32 but at most one (odd = 0: none), and
\* its number of rows
SchemaTables ==
  {[columns |-> [i \in 1..Len(names) |->
                   [name |-> names[i], dataType |-> IF i = odd THEN type ELSE "f32"]],
    numRows |-> n] :
     <<names, odd, type, n>> \in
       {t \in SchemaNameLists \X (0..15) \X (ColumnTypes \ {"f32"}) \X (0..1) :
          t[2] <= Len(t[1])}}

\* isGSDataTable (app/main.cpp:287-295, transform/main.cpp:133-141)
isGSDataTable(drv, dt) ==
  \A i \in 1..Len(required_columns(drv)) : hasColumn(dt.columns, required_columns(drv)[i])

\* the condition of the throw (app/main.cpp:383, transform/main.cpp:234)
isUnsupported(drv, dt) == dt.numRows = 0 \/ ~isGSDataTable(drv, dt)

SchemaStart ==
  /\ callFn = "none"
  /\ callArgs \in [drv : {"app", "transform"}, dt : SchemaTables]
  /\ callResult = NoResult

\* the body of the loop over the tables of an input file
\* (app/main.cpp:382-388, transform/main.cpp:233-239) and the handler of
\* the throw (app/main.cpp:422-425, transform/main.cpp:273-276)
MainCheckInput ==
  /\ callFn = "none"
  /\ callFn' = "checkInput"
  /\ callResult' = IF isUnsupported(callArgs.drv, callArgs.dt)
                   THEN [st |-> "exit", code |-> 1, error |-> "Unsupported data in file"]
                   ELSE [st |-> "accepted"]
  /\ UNCHANGED callArgs

SchemaInit ==
  SchemaStart /\ TableIdle /\ EnvIdle /\ MortonIdle /\ LodIdle /\ PoolIdle /\ OctIdle /\ KmIdle

SchemaNext ==
  \/ MainCheckInput /\ UNCHANGED <<tableVars, envVars, mortonVars, lodVars, poolVars, octVars, kmVars>>

SpecSchema == SchemaInit /\ [][SchemaNext]_vars

\* The table carries every column of a splat scene, all of type f32.
IsSplatScene(dt) ==
  \A c \in Range(SplatColumns) :
    \E i \in 1..Len(dt.columns) : dt.columns[i].name = c /\ dt.columns[i].dataType = "f32"

\* C18: a non-empty input table is accepted if and only if it carries x, y,
\* z, rot_0..rot_3, scale_0..scale_2, f_dc_0..f_dc_2 and opacity, all f32;
\* every other table ends the run with exit code 1 and "Unsupported data in
\* file".
C18_AcceptsExactlySplatScenes ==
  (callFn = "checkInput" /\ callArgs.dt.numRows > 0)
  => IF IsSplatScene(callArgs.dt)
     THEN callResult.st = "accepted"
     ELSE callResult = [st |-> "exit", code |-> 1, error |-> "Unsupported data in file"]

----------------------------------------------------------------------------
(***************************************************************************)
(* The number of SH bands (src/src/op/transform.cpp,                       *)
(* src/src/writers/sog_writer.cpp)                                         *)
(***************************************************************************)
\* shNames: f_rest_0 .. f_rest_44, here by index
NumShNames == 45

\* the f_rest columns of a table: the first n, with or without f_rest_44
ShColumnSets ==
  {0..(n - 1) : n \in 0..NumShNames} \cup {(0..(n - 1)) \cup {44} : n \in 0..NumShNames}

\* transform.cpp:79-85, sog_writer.cpp:369-375: the first index whose column
\* is missing, -1 when there is none
missingIndexOf(present) ==
  IF \A i \in 0..(NumShNames - 1) : i \in present THEN 0 - 1
  ELSE CHOOSE i \in 0..(NumShNames - 1) :
         i \notin present /\ \A j \in 0..(i - 1) : j \in present

\* sog_writer.cpp:377-385
shBandsOfWriteSog(missingIdx) ==
  IF missingIdx = 9 THEN 1
  ELSE IF missingIdx = 24 THEN 2
  ELSE IF missingIdx = 0 - 1 THEN 3
  ELSE 0

\* transform.cpp:89-99
shBandsOfTransform(missingIndex) ==
  IF missingIndex = 0 - 1 THEN 3
  ELSE IF missingIndex <= 9
       THEN IF missingIndex > 8 THEN 1
            ELSE IF missingIndex > 23 THEN 2
            ELSE 0
       ELSE 0

ShStart ==
  /\ callFn = "none"
  /\ callArgs \in [present : ShColumnSets]
  /\ callResult = NoResult

\* transform up to the band count (transform.cpp:70-99)
CallTransformBands ==
  /\ callFn = "none"
  /\ callFn' = "transform"
  /\ callResult' = [st |-> "bands", missingIndex |-> missingIndexOf(callArgs.present),
                    shBands |-> shBandsOfTransform(missingIndexOf(callArgs.present))]
  /\ UNCHANGED callArgs

\* writeSog's band count (sog_writer.cpp:368-385)
CallWriteSogBands ==
  /\ callFn = "none"
  /\ callFn' = "writeSog"
  /\ callResult' = [st |-> "bands", missingIndex |-> missingIndexOf(callArgs.present),
                    shBands |-> shBandsOfWriteSog(missingIndexOf(callArgs.present))]
  /\ UNCHANGED callArgs

ShInit == ShStart /\ TableIdle /\ EnvIdle /\ MortonIdle /\ LodIdle /\ PoolIdle /\ OctIdle /\ KmIdle

ShNext ==
  \/ CallTransformBands /\ UNCHANGED <<tableVars, envVars, mortonVars, lodVars, poolVars, octVars, kmVars>>
  \/ CallWriteSogBands /\ UNCHANGED <<tableVars, envVars, mortonVars, lodVars, poolVars, octVars, kmVars>>

SpecSh == ShInit /\ [][ShNext]_vars

\* C19: transform takes 0 bands when the first missing f_rest index is 0, 1
\* band when it is 9, 2 bands when it is 24, and 3 bands when no f_rest
\* column is missing.
C19_TransformBandCount ==
  callFn = "transform" =>
    /\ callResult.missingIndex = 0 => callResult.shBands = 0
    /\ callResult.missingIndex = 9 => callResult.shBands = 1
    /\ callResult.missingIndex = 24 => callResult.shBands = 2
    /\ callResult.missingIndex = 0 - 1 => callResult.shBands = 3

----------------------------------------------------------------------------
(***************************************************************************)
(* The image grid of writeSog (src/src/writers/sog_writer.cpp)             *)
(***************************************************************************)
MaxSplatCount == 200

\* ceil(sqrt(n) / 4): the least w with (4 w)^2 >= n
ceilSqrtOver4(n) ==
  CHOOSE w \in 0..n : 16 * w * w >= n /\ (w = 0 \/ 16 * (w - 1) * (w - 1) < n)

\* the least integer not below a / b
ceilDiv(a, b) == (a + b - 1) \div b

\* sog_writer.cpp:154
gridWidth(numRows) == ceilSqrtOver4(numRows) * 4

\* sog_writer.cpp:155: numRows and width are size_t, so numRows / width / 4
\* is a quotient of integers before ceil sees it
gridHeight(numRows, width) == ((numRows \div width) \div 4) * 4

GridStart ==
  /\ callFn = "none"
  /\ callArgs \in [numRows : 1..MaxSplatCount]
  /\ callResult = NoResult

\* writeSog up to the size of the grid (sog_writer.cpp:143-156)
CallWriteSogGrid ==
  /\ callFn = "none"
  /\ callFn' = "writeSog"
  /\ callResult' = [st |-> "grid", width |-> gridWidth(callArgs.numRows),
                    height |-> gridHeight(callArgs.numRows, gridWidth(callArgs.numRows))]
  /\ UNCHANGED callArgs

GridInit == GridStart /\ TableIdle /\ EnvIdle /\ MortonIdle /\ LodIdle /\ PoolIdle /\ OctIdle /\ KmIdle

GridNext ==
  \/ CallWriteSogGrid /\ UNCHANGED <<tableVars, envVars, mortonVars, lodVars, poolVars, octVars, kmVars>>

SpecGrid == GridInit /\ [][GridNext]_vars

\* C20: for every n >= 1 the grid of writeSog has width 4 * ceil(sqrt(n) / 4)
\* and height 4 * ceil(n / (4 * width)).
C20_GridSize ==
  (callFn = "writeSog" /\ callResult.st = "grid") =>
    /\ callResult.width = 4 * ceilSqrtOver4(callArgs.numRows)
    /\ callResult.height = 4 * ceilDiv(callArgs.numRows, 4 * callResult.width)

----------------------------------------------------------------------------
(***************************************************************************)
(* Further properties of buildSparseOctree                                 *)
(***************************************************************************)
\* C29: before the bottom-up scan the merged block arrays are in ascending
\* Morton order, and they hold the blocks of the accumulator, each with its
\* own type and mask index.
C29_BlocksSortedByMorton ==
  (octPc = "levels" /\ octLevels = <<>>) =>
    /\ \A i \in 1..(Len(octCur) - 1) : octCur[i].morton <= octCur[i + 1].morton
    /\ Len(octCur) = Len(blockEntries(octAcc))
    /\ Range(octCur) = Range(blockEntries(octAcc))

----------------------------------------------------------------------------
(***************************************************************************)
(* writePly (src/src/writers/ply_writer.cpp)                               *)
(***************************************************************************)
\* The code writes chunks of 1024 rows (ply_writer.cpp:97); the model keeps
\* the chunk loop on tables TLC can enumerate.
MaxPlyRows == 5
PlyChunkSize == 2

\* an element's table: column p holds the value <<p, r>> in row r
PlyTables == [numRows : 0..MaxPlyRows, numColumns : 1..2]
PlyElementLists == UNION {[1..n -> PlyTables] : n \in 1..2}

plyRow(table, r) == [p \in 1..table.numColumns |-> <<p, r>>]

\* ply_writer.cpp:98: ceil of a quotient of two size_t
numChunks(table) == table.numRows \div PlyChunkSize

\* ply_writer.cpp:101-118: the rows of chunks c, c + 1, ... (c from 0)
RECURSIVE writeChunks(_, _)
writeChunks(table, c) ==
  IF c >= numChunks(table) THEN <<>>
  ELSE LET numRows == IF PlyChunkSize < table.numRows - c * PlyChunkSize
                      THEN PlyChunkSize ELSE table.numRows - c * PlyChunkSize
       IN [r \in 1..numRows |-> plyRow(table, c * PlyChunkSize + r)]
          \o writeChunks(table, c + 1)

PlyStart ==
  /\ callFn = "none"
  /\ callArgs \in [elements : PlyElementLists]
  /\ callResult = NoResult

\* writePly (ply_writer.cpp:56-121): the row count of each element's header
\* line and the rows of its body
CallWritePly ==
  /\ callFn = "none"
  /\ callFn' = "writePly"
  /\ callResult' = [st |-> "file",
                    counts |-> [i \in 1..Len(callArgs.elements) |-> callArgs.elements[i].numRows],
                    bodies |-> [i \in 1..Len(callArgs.elements) |->
                                  writeChunks(callArgs.elements[i], 0)]]
  /\ UNCHANGED callArgs

PlyInit == PlyStart /\ TableIdle /\ EnvIdle /\ MortonIdle /\ LodIdle /\ PoolIdle /\ OctIdle /\ KmIdle

PlyNext ==
  \/ CallWritePly /\ UNCHANGED <<tableVars, envVars, mortonVars, lodVars, poolVars, octVars, kmVars>>

SpecPly == PlyInit /\ [][PlyNext]_vars

\* C21: the body of every element holds exactly the rows of its table, in
\* table order, whatever the row count.
C21_WritesEveryRow ==
  callFn = "writePly" =>
    \A i \in 1..Len(callArgs.elements) :
      callResult.bodies[i] =
        [r \in 1..callArgs.elements[i].numRows |-> plyRow(callArgs.elements[i], r)]


----------------------------------------------------------------------------
(***************************************************************************)
(* Block-Morton codec: src/include/splat/op/morton_order.h (xyzToMorton,   *)
(* mortonToXYZ)                                                            *)
(***************************************************************************)
\* The loop bound of xyzToMorton and the width of its uint32_t result.
MortonAxisBits == 17
WordBits == 32

\* Block coordinates that exercise the low bits, the last bits that fit the
\* 32-bit result (x, y: bit 10, z: bit 9) and the bits beyond them.
CodecCoords == {0, 1, 5, 1023, 1024, 2047, 2048, 131071}

\* What a build makes of `bits << (i * 3)` once i * 3 >= 32, which the
\* language leaves undefined: the bits are shifted out, or the shift count
\* is taken modulo 32 as the x86 shift instruction does.
ShiftModes == {"shifted_out", "count_mod_32"}

\* bit i of the int v in two's complement, (v >> i) & 1
IntBit(v, i) == IF v >= 0 THEN Bit(v, i) ELSE 1 - Bit(-v - 1, i)

\* A uint32_t is the set of its one bits. The three bits of iteration i
\* shifted left by i * 3 and truncated to 32 bits.
tripletBits(x, y, z, i, mode) ==
  LET bits == {b \in 0..2 : IntBit(<<x, y, z>>[b + 1], i) = 1}
      shift == i * 3
  IN IF shift < WordBits THEN {b + shift : b \in {c \in bits : c + shift < WordBits}}
     ELSE IF mode = "shifted_out" THEN {}
     ELSE {b + (shift % WordBits) : b \in bits}

xyzToMorton(x, y, z, mode) ==
  UNION {tripletBits(x, y, z, i, mode) : i \in 0..(MortonAxisBits - 1)}

\* the loop of mortonToXYZ: m % 8 is the low triplet, m / 8 drops it
RECURSIVE decodeTriplets(_, _, _)
decodeTriplets(m, bit, xyz) ==
  IF m = {} THEN xyz
  ELSE LET x == IF 0 \in m THEN xyz[1] + bit ELSE xyz[1]
           y == IF 1 \in m THEN xyz[2] + bit ELSE xyz[2]
           z == IF 2 \in m THEN xyz[3] + bit ELSE xyz[3]
       IN decodeTriplets({b - 3 : b \in {c \in m : c >= 3}}, bit * 2, <<x, y, z>>)

mortonToXYZ(m) == decodeTriplets(m, 1, <<0, 0, 0>>)

CodecStart ==
  /\ callFn = "none"
  /\ callArgs \in [x : CodecCoords, y : CodecCoords, z : CodecCoords]
  /\ callResult = NoResult

CallXyzToMorton ==
  /\ callFn = "none"
  /\ \E mode \in ShiftModes :
       callResult' = [st |-> "morton", m |-> xyzToMorton(callArgs.x, callArgs.y, callArgs.z, mode)]
  /\ callFn' = "xyzToMorton"
  /\ UNCHANGED callArgs

CallMortonToXYZ ==
  /\ callFn = "xyzToMorton"
  /\ callResult' = [st |-> "xyz", xyz |-> mortonToXYZ(callResult.m)]
  /\ callFn' = "mortonToXYZ"
  /\ UNCHANGED callArgs

CodecInit == CodecStart /\ TableIdle /\ EnvIdle /\ MortonIdle /\ LodIdle /\ PoolIdle /\ OctIdle /\ KmIdle

CodecNext ==
  \/ CallXyzToMorton /\ UNCHANGED <<tableVars, envVars, mortonVars, lodVars, poolVars, octVars, kmVars>>
  \/ CallMortonToXYZ /\ UNCHANGED <<tableVars, envVars, mortonVars, lodVars, poolVars, octVars, kmVars>>

SpecCodec == CodecInit /\ [][CodecNext]_vars

\* C23: decoding the code of block coordinates (x, y, z), each in
\* 0..2^17-1, gives back (x, y, z).
C23_MortonRoundTrip ==
  callFn = "mortonToXYZ" => callResult.xyz = <<callArgs.x, callArgs.y, callArgs.z>>


----------------------------------------------------------------------------
(***************************************************************************)
(* Voxel filter: src/src/op/voxel_filter.cpp (filterAndFillBlocks)         *)
(***************************************************************************)
MaxFilterBlocks == 2

\* 32-bit words as sets of one bits
AllBits == 0..(WordBits - 1)
Shr(w, k) == {b - k : b \in {c \in w : c >= k}}
Shl(w, k) == {b + k : b \in {c \in w : c + k < WordBits}}

FACE_X0 == MaskBits(<<1, 1, 1, 1, 1, 1, 1, 1>>)
FACE_X3 == MaskBits(<<8, 8, 8, 8, 8, 8, 8, 8>>)
FACE_Y0 == MaskBits(<<0, 0, 0, 15, 0, 0, 0, 15>>)
FACE_Y3 == MaskBits(<<15, 0, 0, 0, 15, 0, 0, 0>>)
FACE_Z0_LO == MaskBits(<<0, 0, 0, 0, 15, 15, 15, 15>>)
FACE_Z3_HI == MaskBits(<<15, 15, 15, 15, 0, 0, 0, 0>>)

\* the index of the mixed block with the given code, <<>> when there is none
mixedMapFind(acc, morton) ==
  LET hits == {i \in 1..Len(acc.mixedMorton) : acc.mixedMorton[i] = morton}
  IN IF hits = {} THEN <<>> ELSE <<CHOOSE i \in hits : \A j \in hits : i <= j>>

addCrossFace(n, acc, mode, ourFaceMask, adjFaceMask, shiftAmount, shiftLeft, cur) ==
  LET adjMorton == xyzToMorton(n[1], n[2], n[3], mode)
      found == mixedMapFind(acc, adjMorton)
  IN IF adjMorton \in Range(acc.solidMorton)
       THEN <<cur[1] \cup ourFaceMask, cur[2] \cup ourFaceMask>>
     ELSE IF found # <<>>
       THEN LET faceLo == acc.mixedMasks[2 * found[1] - 1] \cap adjFaceMask
                faceHi == acc.mixedMasks[2 * found[1]] \cap adjFaceMask
            IN IF shiftLeft
                 THEN <<cur[1] \cup Shl(faceLo, shiftAmount), cur[2] \cup Shl(faceHi, shiftAmount)>>
                 ELSE <<cur[1] \cup Shr(faceLo, shiftAmount), cur[2] \cup Shr(faceHi, shiftAmount)>>
     ELSE cur

addCrossFaceZ(n, acc, mode, plusZ, cur) ==
  LET adjMorton == xyzToMorton(n[1], n[2], n[3], mode)
      found == mixedMapFind(acc, adjMorton)
  IN IF adjMorton \in Range(acc.solidMorton)
       THEN IF plusZ THEN <<cur[1], cur[2] \cup FACE_Z3_HI>>
                     ELSE <<cur[1] \cup FACE_Z0_LO, cur[2]>>
     ELSE IF found # <<>>
       THEN LET adjLo == acc.mixedMasks[2 * found[1] - 1]
                adjHi == acc.mixedMasks[2 * found[1]]
            IN IF plusZ THEN <<cur[1], cur[2] \cup Shl(adjLo \cap FACE_Z0_LO, 16)>>
                        ELSE <<cur[1] \cup Shr(adjHi \cap FACE_Z3_HI, 16), cur[2]>>
     ELSE cur

\* one pass of the loop over the mixed blocks: the new <<lo, hi>> of block i
filterBlock(acc, i, mode) ==
  LET origLo == acc.mixedMasks[2 * i - 1]
      origHi == acc.mixedMasks[2 * i]
      b == mortonToXYZ(acc.mixedMorton[i])
      px == addCrossFace(<<b[1] + 1, b[2], b[3]>>, acc, mode, FACE_X3, FACE_X0, 3, TRUE,
                         <<Shr(origLo, 1) \ FACE_X3, Shr(origHi, 1) \ FACE_X3>>)
      mx == addCrossFace(<<b[1] - 1, b[2], b[3]>>, acc, mode, FACE_X0, FACE_X3, 3, FALSE,
                         <<Shl(origLo, 1) \ FACE_X0, Shl(origHi, 1) \ FACE_X0>>)
      py == addCrossFace(<<b[1], b[2] + 1, b[3]>>, acc, mode, FACE_Y3, FACE_Y0, 12, TRUE,
                         <<Shr(origLo, 4) \ FACE_Y3, Shr(origHi, 4) \ FACE_Y3>>)
      my == addCrossFace(<<b[1], b[2] - 1, b[3]>>, acc, mode, FACE_Y0, FACE_Y3, 12, FALSE,
                         <<Shl(origLo, 4) \ FACE_Y0, Shl(origHi, 4) \ FACE_Y0>>)
      pz == addCrossFaceZ(<<b[1], b[2], b[3] + 1>>, acc, mode, TRUE,
                          <<Shr(origLo, 16) \cup Shl(origHi, 16), Shr(origHi, 16)>>)
      mz == addCrossFaceZ(<<b[1], b[2], b[3] - 1>>, acc, mode, FALSE,
                          <<Shl(origLo, 16), Shl(origHi, 16) \cup Shr(origLo, 16)>>)
      neighborLo == px[1] \cup mx[1] \cup py[1] \cup my[1] \cup pz[1] \cup mz[1]
      neighborHi == px[2] \cup mx[2] \cup py[2] \cup my[2] \cup pz[2] \cup mz[2]
      lo == origLo \cap neighborLo
      hi == origHi \cap neighborHi
      fillLo == (AllBits \ lo) \cap px[1] \cap mx[1] \cap py[1] \cap my[1] \cap pz[1] \cap mz[1]
      fillHi == (AllBits \ hi) \cap px[2] \cap mx[2] \cap py[2] \cap my[2] \cap pz[2] \cap mz[2]
  IN <<lo \cup fillLo, hi \cup fillHi>>

\* filterAndFillBlocks: newMasks is filled block by block and goes out of
\* scope; the function returns a value-initialised accumulator (line 281)
filterAndFillBlocks(acc, mode) ==
  [newMasks |-> [q \in 1..Len(acc.mixedMasks) |->
                   filterBlock(acc, (q + 1) \div 2, mode)[2 - (q % 2)]],
   returned |-> [mixedMorton |-> <<>>, mixedMasks |-> <<>>, solidMorton |-> <<>>]]

\* Inputs: up to MaxFilterBlocks mixed blocks and at most one solid block on
\* three adjacent block positions, with masks that hold a lone voxel on a
\* face, a lone voxel in the upper word, two touching voxels, and a block
\* with a single hole.
FilterCoords == {<<0, 0, 0>>, <<1, 0, 0>>, <<0, 0, 1>>}
FilterMasks ==
  {<<{3}, {}>>, <<{0}, {}>>, <<{}, {16}>>, <<{0, 1}, {}>>, <<AllBits \ {21}, AllBits>>}

FilterAccumulators ==
  {[mixedMorton |-> [i \in 1..Len(cs) |-> xyzToMorton(cs[i][1], cs[i][2], cs[i][3], "shifted_out")],
    mixedMasks |-> [q \in 1..(2 * Len(cs)) |-> ms[(q + 1) \div 2][2 - (q % 2)]],
    solidMorton |-> [i \in 1..Len(ss) |-> xyzToMorton(ss[i][1], ss[i][2], ss[i][3], "shifted_out")]] :
     <<cs, ms, ss>> \in
       {t \in (DistinctSeqs(FilterCoords, MaxFilterBlocks) \ {<<>>})
                \X (UNION {[1..n -> FilterMasks] : n \in 1..MaxFilterBlocks})
                \X DistinctSeqs(FilterCoords, 1) :
          /\ Len(t[1]) = Len(t[2])
          /\ Range(t[1]) \cap Range(t[3]) = {}}}

FilterStart ==
  /\ callFn = "none"
  /\ callArgs \in [accumulator : FilterAccumulators]
  /\ callResult = NoResult

CallFilterAndFillBlocks ==
  /\ callFn = "none"
  /\ \E mode \in ShiftModes :
       LET out == filterAndFillBlocks(callArgs.accumulator, mode)
       IN callResult' = [st |-> "accumulator", newMasks |-> out.newMasks, acc |-> out.returned]
  /\ callFn' = "filterAndFillBlocks"
  /\ UNCHANGED callArgs

FilterInit == FilterStart /\ TableIdle /\ EnvIdle /\ MortonIdle /\ LodIdle /\ PoolIdle /\ OctIdle /\ KmIdle

FilterNext ==
  \/ CallFilterAndFillBlocks /\ UNCHANGED <<tableVars, envVars, mortonVars, lodVars, poolVars, octVars, kmVars>>

SpecFilter == FilterInit /\ [][FilterNext]_vars

\* The voxel at global position g = block * 4 + local is occupied in acc.
voxelOccupied(acc, g) ==
  LET blk == <<g[1] \div 4, g[2] \div 4, g[3] \div 4>>
      bit == (g[1] % 4) + 4 * (g[2] % 4) + 16 * (g[3] % 4)
  IN \/ \E i \in 1..Len(acc.solidMorton) : mortonToXYZ(acc.solidMorton[i]) = blk
     \/ \E i \in 1..Len(acc.mixedMorton) :
          /\ mortonToXYZ(acc.mixedMorton[i]) = blk
          /\ IF bit < WordBits THEN bit \in acc.mixedMasks[2 * i - 1]
                               ELSE (bit - WordBits) \in acc.mixedMasks[2 * i]

faceNeighbours(g) ==
  {<<g[1] + 1, g[2], g[3]>>, <<g[1] - 1, g[2], g[3]>>, <<g[1], g[2] + 1, g[3]>>,
   <<g[1], g[2] - 1, g[3]>>, <<g[1], g[2], g[3] + 1>>, <<g[1], g[2], g[3] - 1>>}

\* the voxels block i should hold after the pass, as <<lo, hi>>
expectedMask(acc, i) ==
  LET b == mortonToXYZ(acc.mixedMorton[i])
      posOf(bit) == <<4 * b[1] + (bit % 4), 4 * b[2] + ((bit \div 4) % 4), 4 * b[3] + (bit \div 16)>>
      occ(bit) == {n \in faceNeighbours(posOf(bit)) : voxelOccupied(acc, n)}
      keep == {bit \in 0..63 :
                 IF voxelOccupied(acc, posOf(bit)) THEN occ(bit) # {}
                 ELSE Cardinality(occ(bit)) = 6}
  IN <<{bit \in keep : bit < WordBits}, {bit - WordBits : bit \in {c \in keep : c >= WordBits}}>>

\* C22: in the accumulator filterAndFillBlocks returns, every mixed block of
\* the input holds its voxels with the isolated ones removed and the
\* fully surrounded empty ones filled, neighbours in adjacent blocks counted.
C22_FilteredAccumulatorReturned ==
  callFn = "filterAndFillBlocks" =>
    \A i \in 1..Len(callArgs.accumulator.mixedMorton) :
      LET want == expectedMask(callArgs.accumulator, i)
      IN (want # <<{}, {}>> /\ want # <<AllBits, AllBits>>) =>
           \E j \in 1..Len(callResult.acc.mixedMorton) :
             /\ callResult.acc.mixedMorton[j] = callArgs.accumulator.mixedMorton[i]
             /\ callResult.acc.mixedMasks[2 * j - 1] = want[1]
             /\ callResult.acc.mixedMasks[2 * j] = want[2]

\* the masks the loop computes before they are dropped
FilterLoopComputesExpected ==
  callFn = "filterAndFillBlocks" =>
    \A i \in 1..Len(callArgs.accumulator.mixedMorton) :
      <<callResult.newMasks[2 * i - 1], callResult.newMasks[2 * i]>>
        = expectedMask(callArgs.accumulator, i)


----------------------------------------------------------------------------
(***************************************************************************)
(* BTree construction in its two variants: src/src/spatial/btree.cpp and   *)
(* src/src/maths/btree.cpp (BTree::BTree, BTree::recurse)                  *)
(***************************************************************************)
MaxTreeRows == 4

TreePoints == {<<0, 0, 0>>, <<1, 0, 0>>, <<0, 4, 0>>, <<2, 2, 0>>}
BTreeVariants == {"spatial", "maths"}

BTreeStart ==
  /\ callFn = "none"
  /\ callArgs \in [variant : BTreeVariants,
                   centroids : UNION {[1..n -> TreePoints] : n \in 1..MaxTreeRows}]
  /\ callResult = NoResult

CallBTree ==
  /\ callFn = "none"
  /\ callResult' = [st |-> "tree", root |-> BTreeOf(callArgs.variant, callArgs.centroids)]
  /\ callFn' = "BTree"
  /\ UNCHANGED callArgs

BTreeInit == BTreeStart /\ TableIdle /\ EnvIdle /\ MortonIdle /\ LodIdle /\ PoolIdle /\ OctIdle /\ KmIdle

BTreeNext ==
  \/ CallBTree /\ UNCHANGED <<tableVars, envVars, mortonVars, lodVars, poolVars, octVars, kmVars>>

SpecBTree == BTreeInit /\ [][BTreeNext]_vars

\* C24: in both variants of BTree::recurse the two children of an interior
\* node hold the two halves of its index subset, so the leaves of the tree
\* built over n rows hold every row index 0..n-1 exactly once.
C24_LeavesPartitionRows ==
  callFn = "BTree" =>
    /\ "threw" \notin DOMAIN callResult.root
    /\ IsPermutationOf(leafRows(callResult.root),
                       [q \in 1..Len(callArgs.centroids) |-> q - 1])


----------------------------------------------------------------------------
(***************************************************************************)
(* writeSog: the columns it looks up by name                               *)
(* (src/src/writers/sog_writer.cpp 143-400, DataTable::clone and           *)
(* getColumnByName of src/src/models/data-table.cpp)                       *)
(***************************************************************************)
MaxSogRows == 2

\* sog_writer.cpp:283: the braces hold one string literal
scalesString == "scale_0, scale_1, scale_2"

\* the spherical-harmonics columns f_rest_0..f_rest_44 are named by their
\* index; every other column by its name
SogNameLists ==
  {SplatColumns, Append(SplatColumns, "lod"), Append(SplatColumns, scalesString),
   Append(Without(SplatColumns, {"scale_0", "scale_1", "scale_2"}), scalesString)}
  \cup {Without(SplatColumns, {c}) : c \in Range(SplatColumns)}

SogShSets == {{}, 0..8, 0..23, 0..(NumShNames - 1), 0..4, (0..8) \ {3}}

SogTables ==
  [columns : {[i \in 1..Len(names) |-> [name |-> names[i], dataType |-> "f32"]] :
                names \in SogNameLists},
   shPresent : SogShSets,
   numRows : 1..MaxSogRows]

\* the first of the names that is no column of the table, <<>> if all are
firstMissing(cols, names) ==
  LET missing == {q \in 1..Len(names) : ~hasColumn(cols, names[q])}
  IN IF missing = {} THEN <<>>
     ELSE <<names[CHOOSE q \in missing : \A m \in missing : q <= m]>>

\* the number of coefficients per channel for 0..3 bands (sog_writer.cpp:308)
shCoeffsOf(shBands) == <<0, 3, 8, 15>>[shBands + 1]

\* The lookups of writeSog in the order it makes them: calcMinMax and the
\* column indices of writeMeans, the indices of writeQuaternions, the clone of
\* writeScales, the clone and the opacity column of writeColors, the clone of
\* writeSH. The result is the first lookup that fails, or "completed".
writeSogLookups(table) ==
  LET cols == table.columns
      means == firstMissing(cols, <<"x", "y", "z">>)
      quats == firstMissing(cols, <<"rot_0", "rot_1", "rot_2", "rot_3">>)
      scales == firstMissing(cols, <<scalesString>>)
      colors == firstMissing(cols, <<"f_dc_0", "f_dc_1", "f_dc_2">>)
      opacity == firstMissing(cols, <<"opacity">>)
      shBands == shBandsOfWriteSog(missingIndexOf(table.shPresent))
      shWanted == 0..(3 * shCoeffsOf(shBands) - 1)
  IN IF means # <<>> THEN [st |-> "threw", what |-> "out_of_range", step |-> "writeMeans", name |-> means[1]]
     ELSE IF quats # <<>> THEN [st |-> "out_of_bounds", what |-> "getRow", step |-> "writeQuaternions", name |-> quats[1]]
     ELSE IF scales # <<>> THEN [st |-> "threw", what |-> "runtime_error", step |-> "writeScales", name |-> scales[1]]
     ELSE IF colors # <<>> THEN [st |-> "threw", what |-> "runtime_error", step |-> "writeColors", name |-> colors[1]]
     ELSE IF opacity # <<>> THEN [st |-> "threw", what |-> "out_of_range", step |-> "writeColors", name |-> opacity[1]]
     ELSE IF ~(shWanted \subseteq table.shPresent)
          THEN [st |-> "threw", what |-> "runtime_error", step |-> "writeSH", name |-> "f_rest"]
     ELSE [st |-> "completed", what |-> "none", step |-> "meta", name |-> "none"]

SogStart ==
  /\ callFn = "none"
  /\ callArgs \in [dataTable : SogTables]
  /\ callResult = NoResult

CallWriteSog ==
  /\ callFn = "none"
  /\ callResult' = writeSogLookups(callArgs.dataTable)
  /\ callFn' = "writeSog"
  /\ UNCHANGED callArgs

SogInit == SogStart /\ TableIdle /\ EnvIdle /\ MortonIdle /\ LodIdle /\ PoolIdle /\ OctIdle /\ KmIdle

SogNext ==
  \/ CallWriteSog /\ UNCHANGED <<tableVars, envVars, mortonVars, lodVars, poolVars, octVars, kmVars>>

SpecSog == SogInit /\ [][SogNext]_vars

\* C28: on a non-empty table that has the columns x, y, z, rot_0..rot_3,
\* scale_0..scale_2, f_dc_0..f_dc_2 and opacity, writeSog finds every column
\* it looks up or clones by name and runs to completion.
C28_WriteSogFindsItsColumns ==
  (/\ callFn = "writeSog"
   /\ callArgs.dataTable.numRows > 0
   /\ \A q \in 1..Len(SplatColumns) : hasColumn(callArgs.dataTable.columns, SplatColumns[q]))
    => callResult.st = "completed"


----------------------------------------------------------------------------
(***************************************************************************)
(* quickselect as a loop: src/src/spatial/btree.cpp 42-96 and              *)
(* src/src/maths/btree.cpp 42-135, one loop test per step                  *)
(***************************************************************************)
MaxSelectLen == 5

SelectValues == {0, 1, 2}

\* the index span is 0..n-1 in order; the data are arbitrary, so that every
\* arrangement of values under the span occurs (all equal, ascending,
\* descending, two elements)
SelectStart ==
  /\ callFn = "none"
  /\ callArgs \in {a \in [variant : BTreeVariants,
                          data : UNION {[1..n -> SelectValues] : n \in 1..MaxSelectLen},
                          k : 0..(MaxSelectLen - 1)] : a.k < Len(a.data)}
  /\ callResult = NoResult

QuickselectEnter ==
  /\ callFn = "none"
  /\ callResult' = qsEnter(callArgs.variant, callArgs.data,
                           [q \in 1..Len(callArgs.data) |-> q - 1], callArgs.k)
  /\ callFn' = "quickselect"
  /\ UNCHANGED callArgs

QuickselectStep ==
  /\ callFn = "quickselect"
  /\ qsRunning(callResult)
  /\ callResult' = qsStep(callArgs.variant, callArgs.data, callArgs.k, callResult)
  /\ UNCHANGED <<callFn, callArgs>>

SelectInit == SelectStart /\ TableIdle /\ EnvIdle /\ MortonIdle /\ LodIdle /\ PoolIdle /\ OctIdle /\ KmIdle

SelectNext ==
  \/ QuickselectEnter /\ UNCHANGED <<tableVars, envVars, mortonVars, lodVars, poolVars, octVars, kmVars>>
  \/ QuickselectStep /\ UNCHANGED <<tableVars, envVars, mortonVars, lodVars, poolVars, octVars, kmVars>>

\* the call runs on one thread that keeps executing
SpecSelect == SelectInit /\ [][SelectNext]_vars /\ WF_vars(SelectNext)

\* C30: on every non-empty index span and every k inside it, all values
\* equal, two elements and sorted data included, both variants of
\* quickselect come to their return statement.
C30_QuickselectTerminates == <>(callFn = "quickselect" /\ callResult.pc = "returned")

\* a call that went round the outer loop and returned on data that are all
\* equal
C30_Witness ==
  /\ callFn = "quickselect"
  /\ callResult.pc = "returned"
  /\ Len(callArgs.data) >= 4
  /\ \A q \in 1..Len(callArgs.data) : callArgs.data[q] = callArgs.data[1]
  /\ callResult.idx # [q \in 1..Len(callArgs.data) |-> q - 1]

\* the step-wise loop leaves the index array as the one-piece model of the
\* spatial variant does
StepwiseAgreesWithQuickselect ==
  (callFn = "quickselect" /\ callResult.pc = "returned" /\ callArgs.variant = "spatial") =>
    callResult.idx = quickselect(callArgs.data, [q \in 1..Len(callArgs.data) |-> q - 1],
                                 callArgs.k, 0, Len(callArgs.data) - 1)

====
